---------------------------- MODULE Spec2Model ----------------------------
(***************************************************************************)
(* A model of the WhatsApp gateway worker (bt-servant-whatsapp-gateway):   *)
(* the webhook signature check, the callback routes, the message handler   *)
(* and the engine dispatch clients.                                        *)
(*                                                                         *)
(* Strings whose characters matter (signatures, header values) are         *)
(* sequences of character codes.                                           *)
(***************************************************************************)
EXTENDS Integers, Sequences, FiniteSets, TLC

VARIABLES
    vin,      \* inputs of one signature verification: body, sig256, sig1, secret
    vout,     \* its results: verifySignature and verifyFacebookSignature
    cmp,      \* one run of constantTimeCompare: a, b, result, steps
    cb,       \* the callback requests (completion and progress), by arrival
    dedup,    \* message ids recorded as processed by the completion route
    wh,       \* the webhook request and its background task
    now,      \* Math.floor(Date.now() / 1000)
    eng,      \* one call of an engine client
    ch,       \* one call of chunkMessage
    hs        \* one GET to /meta-whatsapp (the verification handshake)

vars == <<vin, vout, cmp, cb, dedup, wh, now, eng, ch, hs>>

(***************************************************************************)
(* Bounds of the model.                                                    *)
(***************************************************************************)
NumSecrets == 2
NumBodies == 2
MaxStrLen == 3
MaxCallbacks == 2
ChunkSize == 5        \* parseInt(env.CHUNK_SIZE, 10) of the deployment modelled
CutoffSeconds == 3    \* parseInt(env.MESSAGE_AGE_CUTOFF_SECONDS, 10), likewise
MaxTicks == 1         \* seconds that pass while a webhook is processed
MaxTextLen == 5       \* longest text given to chunkMessage on its own
MaxChunkLen == 3      \* greatest maxLength given to chunkMessage on its own
MaxSplitLen == 4      \* longest text given to chunkMessage run step by step
MaxPieces == 3        \* most chunks given to combineChunks
MaxPieceLen == 4      \* longest chunk given to combineChunks
MaxCombineLen == 6    \* greatest maxLength given to combineChunks

Secrets == 1..NumSecrets
Bodies == 1..NumBodies

(***************************************************************************)
(* Character codes and JavaScript string helpers.                          *)
(***************************************************************************)
SPACE == <<32>>
SHA256_PREFIX == <<115, 104, 97, 50, 53, 54, 61>>   \* "sha256="
SHA1_PREFIX == <<115, 104, 97, 49, 61>>             \* "sha1="

\* The code points String.prototype.trim removes (WhiteSpace and
\* LineTerminator of ECMAScript).
WhiteSpace ==
    {9, 10, 11, 12, 13, 32, 160, 5760, 8232, 8233, 8239, 8287, 12288, 65279}
        \cup (8192..8202)

RECURSIVE TrimStart(_)
TrimStart(s) ==
    IF s # <<>> /\ Head(s) \in WhiteSpace THEN TrimStart(Tail(s)) ELSE s

RECURSIVE TrimEnd(_)
TrimEnd(s) ==
    IF s # <<>> /\ s[Len(s)] \in WhiteSpace
    THEN TrimEnd(SubSeq(s, 1, Len(s) - 1))
    ELSE s

\* String.prototype.trim
Trim(s) == TrimEnd(TrimStart(s))

\* The bitwise operators ^ and | on non-negative integers.
\* The value of a string of decimal digits (parseFloat, parseInt on it).
RECURSIVE ParseDigits(_, _)
ParseDigits(s, acc) ==
    IF s = <<>> THEN acc
    ELSE ParseDigits(Tail(s), (10 * acc) + (Head(s) - 48))

\* A JavaScript number that may be NaN.
Num(v) == [nan |-> FALSE, v |-> v]
NaN == [nan |-> TRUE, v |-> 0]

\* The decimal digits a string begins with.
RECURSIVE LeadingDigits(_)
LeadingDigits(s) ==
    IF s = <<>> \/ Head(s) \notin 48..57 THEN <<>>
    ELSE <<Head(s)>> \o LeadingDigits(Tail(s))

\* parseInt(s, 10) on a string without sign or leading whitespace.
parseInt10(s) ==
    IF LeadingDigits(s) = <<>> THEN NaN
    ELSE Num(ParseDigits(LeadingDigits(s), 0))

\* String(n) for a natural number n.
RECURSIVE Digits(_)
Digits(n) ==
    IF n < 10 THEN <<48 + n>>
    ELSE Digits(n \div 10) \o <<48 + (n % 10)>>

RECURSIVE BitXor(_, _)
BitXor(x, y) ==
    IF x = 0 /\ y = 0 THEN 0
    ELSE (IF (x % 2) = (y % 2) THEN 0 ELSE 1) + (2 * BitXor(x \div 2, y \div 2))

RECURSIVE BitOr(_, _)
BitOr(x, y) ==
    IF x = 0 /\ y = 0 THEN 0
    ELSE (IF (x % 2) = 1 \/ (y % 2) = 1 THEN 1 ELSE 0) + (2 * BitOr(x \div 2, y \div 2))

(***************************************************************************)
(* utils/crypto                                                            *)
(***************************************************************************)
\* One hexadecimal digit, as Number.prototype.toString(16) writes it.
HexDigit(n) == IF n < 10 THEN 48 + n ELSE 87 + n

\* arrayBufferToHex: two lower-case hexadecimal digits per byte.
RECURSIVE arrayBufferToHex(_)
arrayBufferToHex(bytes) ==
    IF bytes = <<>> THEN <<>>
    ELSE <<HexDigit(Head(bytes) \div 16), HexDigit(Head(bytes) % 16)>>
             \o arrayBufferToHex(Tail(bytes))

\* A variant of the loop that returns at the first differing position.
RECURSIVE CompareLoopEarlyExit(_, _, _, _, _)
CompareLoopEarlyExit(a, b, i, result, steps) ==
    IF i > Len(a) \/ result # 0 THEN [result |-> result, steps |-> steps]
    ELSE CompareLoopEarlyExit(a, b, i + 1,
                              BitOr(result, BitXor(a[i], b[i])), steps + 1)

\* A variant of the loop that assigns (result = ...) instead of
\* accumulating (result |= ...).
RECURSIVE CompareLoopOverwrite(_, _, _, _, _)
CompareLoopOverwrite(a, b, i, result, steps) ==
    IF i > Len(a) THEN [result |-> result, steps |-> steps]
    ELSE CompareLoopOverwrite(a, b, i + 1, BitXor(a[i], b[i]), steps + 1)

\* The for loop of constantTimeCompare from index i (1-based here): result
\* accumulates a.charCodeAt(i) ^ b.charCodeAt(i); steps counts iterations.
RECURSIVE CompareLoopBody(_, _, _, _, _)
CompareLoopBody(a, b, i, result, steps) ==
    IF i > Len(a) THEN [result |-> result, steps |-> steps]
    ELSE CompareLoopBody(a, b, i + 1,
                         BitOr(result, BitXor(a[i], b[i])), steps + 1)

CompareLoop(a, b, i, result, steps) == CompareLoopBody(a, b, i, result, steps)

\* constantTimeCompare with the number of loop iterations it ran.
CompareRun(a, b) ==
    IF Len(a) # Len(b) THEN [result |-> FALSE, steps |-> 0]
    ELSE LET r == CompareLoop(a, b, 1, 0, 0)
         IN  [result |-> (r.result = 0), steps |-> r.steps]

constantTimeCompare(a, b) == CompareRun(a, b).result

(***************************************************************************)
(* services/meta-api/signature                                             *)
(***************************************************************************)
\* crypto.subtle.sign('HMAC', key, body): an injective keyed function of
\* (secret, body) for each hash.  The digests are shortened (two bytes for
\* SHA-256, one for SHA-1); SHA-256 digests stay longer than SHA-1 digests.
Hmac(hash, secret, body) ==
    IF hash = "SHA-256"
    THEN <<(16 * secret) + body, 255 - ((16 * secret) + body)>>
    ELSE <<((16 * body) + secret + 128) % 256>>

\* A header value: null (header absent) or a string.
Null == [null |-> TRUE, s |-> <<>>]
Str(s) == [null |-> FALSE, s |-> s]
\* JavaScript truthiness of string | null.
Truthy(h) == ~h.null /\ h.s # <<>>

verifySignature(body, signature, secret) ==
    IF ~Truthy(signature) THEN FALSE
    ELSE LET expected ==
                 SHA256_PREFIX \o arrayBufferToHex(Hmac("SHA-256", secret, body))
         IN  constantTimeCompare(expected, Trim(signature.s))

verifySha1Signature(body, signature, secret) ==
    LET expected == SHA1_PREFIX \o arrayBufferToHex(Hmac("SHA-1", secret, body))
    IN  constantTimeCompare(expected, Trim(signature.s))

\* A variant that tries the SHA-1 header when the SHA-256 check fails.
verifyFacebookSignatureTryBoth(body, sig256, sig1, secret) ==
    \/ (Truthy(sig256) /\ verifySignature(body, sig256, secret))
    \/ (Truthy(sig1) /\ verifySha1Signature(body, sig1, secret))

verifyFacebookSignature(body, sig256, sig1, secret) ==
    IF Truthy(sig256) THEN verifySignature(body, sig256, secret)
    ELSE IF Truthy(sig1) THEN verifySha1Signature(body, sig1, secret)
    ELSE FALSE

(***************************************************************************)
(* The senders' side: what a signer with some secret puts in the headers.  *)
(***************************************************************************)
Sign256(body, secret) ==
    SHA256_PREFIX \o arrayBufferToHex(Hmac("SHA-256", secret, body))
Sign1(body, secret) ==
    SHA1_PREFIX \o arrayBufferToHex(Hmac("SHA-1", secret, body))
\* The SHA-256 digest under the prefix of the other algorithm.
WrongPrefix256(body, secret) ==
    SHA1_PREFIX \o arrayBufferToHex(Hmac("SHA-256", secret, body))
WrongPrefix1(body, secret) ==
    SHA256_PREFIX \o arrayBufferToHex(Hmac("SHA-1", secret, body))
Padded(s) == SPACE \o SPACE \o s \o SPACE \o SPACE

HeaderValues ==
    {Null, Str(<<>>), Str(SPACE)}
        \cup { Str(Sign256(b, s)) : b \in Bodies, s \in Secrets }
        \cup { Str(Sign1(b, s)) : b \in Bodies, s \in Secrets }
        \cup { Str(Padded(Sign256(b, s))) : b \in Bodies, s \in Secrets }
        \cup { Str(Padded(Sign1(b, s))) : b \in Bodies, s \in Secrets }
        \cup { Str(WrongPrefix256(b, s)) : b \in Bodies, s \in Secrets }
        \cup { Str(WrongPrefix1(b, s)) : b \in Bodies, s \in Secrets }

(***************************************************************************)
(* services/chunking                                                       *)
(***************************************************************************)
SENTENCE_DELIMITERS == {<<46>>, <<59>>, <<10, 10>>}     \* ".", ";", "\n\n"

\* text.split(/(\.|;|\n\n)/): the texts between the delimiters, with each
\* delimiter kept as an element of its own; cur is the text read so far.
RECURSIVE SplitOnDelimiters(_, _)
SplitOnDelimiters(text, cur) ==
    IF text = <<>> THEN <<cur>>
    ELSE IF Head(text) \in {46, 59}
    THEN <<cur, <<Head(text)>>>> \o SplitOnDelimiters(Tail(text), <<>>)
    ELSE IF Len(text) >= 2 /\ text[1] = 10 /\ text[2] = 10
    THEN <<cur, <<10, 10>>>> \o SplitOnDelimiters(SubSeq(text, 3, Len(text)), <<>>)
    ELSE SplitOnDelimiters(Tail(text), Append(cur, Head(text)))

\* The while loop of reattachDelimiters from index i (1-based here).
RECURSIVE ReattachFrom(_, _)
ReattachFrom(pieces, i) ==
    IF i > Len(pieces) THEN <<>>
    ELSE LET current == pieces[i]
             hasDelimiter ==
                 i + 1 <= Len(pieces) /\ pieces[i + 1] \in SENTENCE_DELIMITERS
             piece == IF hasDelimiter THEN current \o pieces[i + 1] ELSE current
             trimmed == Trim(piece)
             rest == ReattachFrom(pieces, IF hasDelimiter THEN i + 2 ELSE i + 1)
         IN  IF trimmed # <<>> THEN <<trimmed>> \o rest ELSE rest

\* A variant that leaves the delimiter out of the piece.
RECURSIVE ReattachFromWithoutDelimiter(_, _)
ReattachFromWithoutDelimiter(pieces, i) ==
    IF i > Len(pieces) THEN <<>>
    ELSE LET hasDelimiter ==
                 i + 1 <= Len(pieces) /\ pieces[i + 1] \in SENTENCE_DELIMITERS
             trimmed == Trim(pieces[i])
             rest == ReattachFromWithoutDelimiter(
                         pieces, IF hasDelimiter THEN i + 2 ELSE i + 1)
         IN  IF trimmed # <<>> THEN <<trimmed>> \o rest ELSE rest

reattachDelimitersDropped(pieces) == ReattachFromWithoutDelimiter(pieces, 1)

reattachDelimiters(pieces) == ReattachFrom(pieces, 1)

\* The for loop of combineIntoChunks from piece i with currentChunk.
RECURSIVE CombineFrom(_, _, _, _)
CombineFrom(pieces, i, currentChunk, maxLength) ==
    IF i > Len(pieces)
    THEN IF currentChunk # <<>> THEN <<currentChunk>> ELSE <<>>
    ELSE LET piece == pieces[i]
             separator == IF currentChunk # <<>> THEN SPACE ELSE <<>>
             wouldFit ==
                 Len(currentChunk) + Len(separator) + Len(piece) <= maxLength
         IN  IF wouldFit
             THEN CombineFrom(pieces, i + 1, currentChunk \o separator \o piece,
                              maxLength)
             ELSE (IF currentChunk # <<>> THEN <<currentChunk>> ELSE <<>>)
                      \o CombineFrom(pieces, i + 1, piece, maxLength)

\* A variant that appends a piece only when it stays below maxLength.
RECURSIVE CombineFromStrict(_, _, _, _)
CombineFromStrict(pieces, i, currentChunk, maxLength) ==
    IF i > Len(pieces)
    THEN IF currentChunk # <<>> THEN <<currentChunk>> ELSE <<>>
    ELSE LET piece == pieces[i]
             separator == IF currentChunk # <<>> THEN SPACE ELSE <<>>
             wouldFit ==
                 Len(currentChunk) + Len(separator) + Len(piece) < maxLength
         IN  IF wouldFit
             THEN CombineFromStrict(pieces, i + 1,
                                    currentChunk \o separator \o piece, maxLength)
             ELSE (IF currentChunk # <<>> THEN <<currentChunk>> ELSE <<>>)
                      \o CombineFromStrict(pieces, i + 1, piece, maxLength)

combineIntoChunksStrict(pieces, maxLength) ==
    CombineFromStrict(pieces, 1, <<>>, maxLength)

combineIntoChunks(pieces, maxLength) == CombineFrom(pieces, 1, <<>>, maxLength)

splitAtSentences(text, maxLength) ==
    combineIntoChunks(reattachDelimiters(SplitOnDelimiters(text, <<>>)), maxLength)

\* remaining.lastIndexOf(' ', fromIndex): the greatest 0-based index at or
\* before fromIndex that holds a space, or -1.
LastIndexOfSpace(s, fromIndex) ==
    LET at == { p \in 0..(Len(s) - 1) : p <= fromIndex /\ s[p + 1] = 32 }
    IN  IF at = {} THEN -1 ELSE CHOOSE p \in at : \A q \in at : q <= p

\* A variant that cuts at position 0 when it finds no space.
forceSplitPointZero(remaining, maxLength) ==
    LET found == LastIndexOfSpace(remaining, maxLength)
    IN  IF found = -1 THEN 0 ELSE found

\* splitPoint of one iteration of forceSplit's loop.
forceSplitPoint(remaining, maxLength) ==
    LET found == LastIndexOfSpace(remaining, maxLength)
    IN  IF found = -1 THEN maxLength ELSE found

\* The while loop of forceSplit on remaining.
RECURSIVE ForceSplitLoop(_, _)
ForceSplitLoop(remaining, maxLength) ==
    IF Len(remaining) <= maxLength
    THEN IF remaining # <<>> THEN <<remaining>> ELSE <<>>
    ELSE LET splitPoint == forceSplitPoint(remaining, maxLength)
             chunk == Trim(SubSeq(remaining, 1, splitPoint))
             rest == Trim(SubSeq(remaining, splitPoint + 1, Len(remaining)))
         IN  (IF chunk # <<>> THEN <<chunk>> ELSE <<>>)
                 \o ForceSplitLoop(rest, maxLength)

\* A variant that splits one character late where it finds no space.
RECURSIVE ForceSplitLoopLate(_, _)
ForceSplitLoopLate(remaining, maxLength) ==
    IF Len(remaining) <= maxLength
    THEN IF remaining # <<>> THEN <<remaining>> ELSE <<>>
    ELSE LET found == LastIndexOfSpace(remaining, maxLength)
             splitPoint == IF found = -1 THEN maxLength + 1 ELSE found
             chunk == Trim(SubSeq(remaining, 1, splitPoint))
             rest == Trim(SubSeq(remaining, splitPoint + 1, Len(remaining)))
         IN  (IF chunk # <<>> THEN <<chunk>> ELSE <<>>)
                 \o ForceSplitLoopLate(rest, maxLength)

forceSplitLate(text, maxLength) == ForceSplitLoopLate(text, maxLength)

forceSplit(text, maxLength) == ForceSplitLoop(text, maxLength)

\* The loop of chunkMessage over the sentence chunks.
RECURSIVE EnsureLimit(_, _)
EnsureLimit(chunks, maxLength) ==
    IF chunks = <<>> THEN <<>>
    ELSE (IF Len(Head(chunks)) <= maxLength
          THEN <<Head(chunks)>>
          ELSE forceSplit(Head(chunks), maxLength))
             \o EnsureLimit(Tail(chunks), maxLength)

\* A variant that returns the text whole only below the limit.
chunkMessageBelowLimit(text, maxLength) ==
    IF Len(text) < maxLength THEN <<text>>
    ELSE EnsureLimit(splitAtSentences(text, maxLength), maxLength)

\* A variant that trims the text before it measures it.
chunkMessageTrimsFirst(text, maxLength) ==
    IF Len(Trim(text)) <= maxLength THEN <<Trim(text)>>
    ELSE EnsureLimit(splitAtSentences(text, maxLength), maxLength)

chunkMessage(text, maxLength) ==
    IF Len(text) <= maxLength THEN <<text>>
    ELSE EnsureLimit(splitAtSentences(text, maxLength), maxLength)

\* '\n\n'
BLANK_LINE == <<10, 10>>

\* A variant of the loop body that counts one character for the separator.
combineChunksIterationSpace(current, combined, chunk, maxLength) ==
    LET separator == IF current # <<>> THEN BLANK_LINE ELSE <<>>
        wouldFit == Len(current) + (IF current # <<>> THEN 1 ELSE 0) + Len(chunk)
                        <= maxLength
    IN  IF wouldFit
        THEN [current |-> current \o separator \o chunk, combined |-> combined]
        ELSE [current |-> chunk,
              combined |-> IF current # <<>> THEN Append(combined, current)
                           ELSE combined]

\* The body of the for loop of combineChunks: current and combined after
\* chunk.
combineChunksIteration(current, combined, chunk, maxLength) ==
    LET separator == IF current # <<>> THEN BLANK_LINE ELSE <<>>
        wouldFit == Len(current) + Len(separator) + Len(chunk) <= maxLength
    IN  IF wouldFit
        THEN [current |-> current \o separator \o chunk, combined |-> combined]
        ELSE [current |-> chunk,
              combined |-> IF current # <<>> THEN Append(combined, current)
                           ELSE combined]

\* After the loop: if (current) combined.push(current); return combined.
combineChunksReturn(current, combined) ==
    IF current # <<>> THEN Append(combined, current) ELSE combined

(***************************************************************************)
(* JSON values of the callback bodies.  A field is undefined, a string, a  *)
(* number or an array; an array element is a string or a number.           *)
(***************************************************************************)
JUndef == [t |-> "undefined", s |-> <<>>, a |-> <<>>]
JNum == [t |-> "number", s |-> <<>>, a |-> <<>>]
JStr(s) == [t |-> "string", s |-> s, a |-> <<>>]
JArr(a) == [t |-> "array", s |-> <<>>, a |-> a]
EStr(s) == [t |-> "string", s |-> s]
ENum == [t |-> "number", s |-> <<>>]

\* Truthiness of a field value (a number field is a non-zero number here).
JsTruthy(v) == v.t \in {"number", "array"} \/ (v.t = "string" /\ v.s # <<>>)

\* The texts of the model.
COMPLETED == <<99, 111, 109, 112, 108, 101, 116, 101, 100>>   \* "completed"
ERROR == <<101, 114, 114, 111, 114>>                          \* "error"
UNKNOWN == <<117, 110, 107, 110, 111, 119, 110>>              \* "unknown"
M1 == <<109, 49>>                                             \* "m1"
M2 == <<109, 50>>                                             \* "m2"
U1 == <<117, 49>>                                             \* "u1"
HI == <<72, 105>>                                             \* "Hi"
YO == <<89, 111>>                                             \* "Yo"
LONG == <<65, 98, 46, 32, 67, 100, 46>>                       \* "Ab. Cd."
BOOM == <<98, 111, 111, 109>>                                 \* "boom"
WORKING == <<87, 111, 114, 107>>                              \* "Work"
\* 'Sorry, I encountered an error processing your message. Please try
\* again.', abbreviated.
ERROR_NOTICE == <<83, 111, 114, 114, 121>>                    \* "Sorry"

\* c.env.ENGINE_API_KEY and the X-Engine-Token values of the model:
\* absent, a wrong token, the configured key.
ENGINE_API_KEY == Str(<<107, 101, 121>>)                      \* "key"
WRONG_TOKEN == Str(<<119, 114, 111, 110, 103>>)               \* "wrong"
Tokens == {Null, WRONG_TOKEN, ENGINE_API_KEY}

(***************************************************************************)
(* services/message-handler: the callback handlers.                        *)
(*                                                                         *)
(* A handler's run is its plan: the outbound sends it makes in order, and  *)
(* whether it ends by throwing after them.                                 *)
(***************************************************************************)
NoSends == [sends |-> <<>>, throws |-> FALSE]
Throws == [sends |-> <<>>, throws |-> TRUE]
Send(to, text) == [to |-> to, text |-> text]

\* callback.user_id.slice(0, 8) in the handlers' log line throws a
\* TypeError unless user_id is a string.
CanSlice(v) == v.t = "string"

\* A variant of the inner loop that sends the last chunk first.
ChunkSendsLastFirst(userId, chunks) ==
    [k \in 1..Len(chunks) |-> Send(userId, JStr(chunks[Len(chunks) + 1 - k]))]

\* The inner loop of sendResponses: one send per chunk.
ChunkSends(userId, chunks) ==
    [k \in 1..Len(chunks) |-> Send(userId, JStr(chunks[k]))]

\* The outer loop of sendResponses over the values that
\* `for (const text of responses)` yields; chunkMessage throws a TypeError
\* on a value that is not a string (no length, no split).
RECURSIVE SendResponsesFrom(_, _, _)
SendResponsesFrom(userId, texts, chunkSize) ==
    IF texts = <<>> THEN NoSends
    ELSE IF Head(texts).t # "string" THEN Throws
    ELSE LET rest == SendResponsesFrom(userId, Tail(texts), chunkSize)
         IN  [sends |-> ChunkSends(userId, chunkMessage(Head(texts).s, chunkSize))
                            \o rest.sends,
              throws |-> rest.throws]

\* What `for (const text of responses)` iterates: the elements of an array,
\* the characters of a string; a number is not iterable.
Iterate(responses) ==
    IF responses.t = "array" THEN responses.a
    ELSE [k \in 1..Len(responses.s) |-> EStr(<<responses.s[k]>>)]

sendResponses(userId, responses, chunkSize) ==
    IF responses.t = "number" THEN Throws
    ELSE SendResponsesFrom(userId, Iterate(responses), chunkSize)

\* A callback body: text that is not JSON, JSON that is no object (null),
\* or an object with its fields.
NoFields ==
    [message_id |-> JUndef, user_id |-> JUndef, status |-> JUndef,
     responses |-> JUndef, error |-> JUndef, message_key |-> JUndef,
     text |-> JUndef]
Malformed == [kind |-> "malformed", f |-> NoFields]
NonObject == [kind |-> "null", f |-> NoFields]
Object(f) == [kind |-> "object", f |-> f]

\* A variant that relays the callback's error text when it has one.
handleCompletionCallbackRelaysError(callback) ==
    IF callback.kind # "object" THEN Throws
    ELSE IF ~CanSlice(callback.f.user_id) THEN Throws
    ELSE IF callback.f.status = JStr(COMPLETED) /\ JsTruthy(callback.f.responses)
    THEN sendResponses(callback.f.user_id.s, callback.f.responses, ChunkSize)
    ELSE IF callback.f.status = JStr(ERROR)
    THEN [sends |-> <<Send(callback.f.user_id.s,
                           IF callback.f.error.t = "string"
                           THEN callback.f.error ELSE JStr(ERROR_NOTICE))>>,
          throws |-> FALSE]
    ELSE NoSends

handleCompletionCallback(callback) ==
    IF callback.kind # "object" THEN Throws
    ELSE IF ~CanSlice(callback.f.user_id) THEN Throws
    ELSE IF callback.f.status = JStr(COMPLETED) /\ JsTruthy(callback.f.responses)
    THEN sendResponses(callback.f.user_id.s, callback.f.responses, ChunkSize)
    ELSE IF callback.f.status = JStr(ERROR)
    THEN [sends |-> <<Send(callback.f.user_id.s, JStr(ERROR_NOTICE))>>,
          throws |-> FALSE]
    ELSE NoSends

handleProgressCallback(callback) ==
    IF callback.kind # "object" THEN Throws
    ELSE IF ~CanSlice(callback.f.user_id) THEN Throws
    ELSE [sends |-> <<Send(callback.f.user_id.s, callback.f.text)>>,
          throws |-> FALSE]

isNonEmptyString(v) == v.t = "string" /\ v.s # <<>>
isStringArray(v) ==
    v.t = "array" /\ \A k \in 1..Len(v.a) : v.a[k].t = "string"

\* validateCompletionCallback(payload) = null
validateCompletionCallback(payload) ==
    /\ payload.kind = "object"
    /\ isNonEmptyString(payload.f.message_id)
    /\ isNonEmptyString(payload.f.user_id)
    /\ payload.f.status \in {JStr(COMPLETED), JStr(ERROR)}
    /\ (payload.f.status = JStr(COMPLETED) => isStringArray(payload.f.responses))

\* validateProgressCallback(payload) = null
validateProgressCallback(payload) ==
    /\ payload.kind = "object"
    /\ isNonEmptyString(payload.f.user_id)
    /\ isNonEmptyString(payload.f.message_key)
    /\ payload.f.text.t = "string"

(***************************************************************************)
(* The idle values of the variables a specification does not use.          *)
(***************************************************************************)
VerifyIdle == [sigDone |-> FALSE, sig |-> FALSE, fbDone |-> FALSE, fb |-> FALSE]
CompareIdle == [a |-> <<>>, b |-> <<>>, done |-> TRUE, result |-> TRUE, steps |-> 0]
\* parseInt(env.MESSAGE_AGE_CUTOFF_SECONDS, 10) of the deployment modelled
\* is CutoffSeconds; NOW is Math.floor(Date.now() / 1000) when the webhook
\* arrives.
NOW == 10

NoRequest == [body |-> 1, sig256 |-> Null, sig1 |-> Null, userAgent |-> Null]

NoMessage ==
    [userId |-> Null, messageId |-> <<>>, messageType |-> "unknown",
     timestamp |-> NaN, text |-> Null]

WebhookIdle ==
    [pc |-> "idle", req |-> NoRequest, status |-> 0, queue |-> <<>>,
     msg |-> NoMessage, n |-> 0, clocks |-> <<>>, events |-> <<>>,
     caught |-> FALSE]

HandshakeIdle ==
    [pc |-> "idle", mode |-> Null, token |-> Null, challenge |-> Null,
     status |-> 0, body |-> <<>>]

ChunkIdle == [text |-> <<>>, maxLength |-> 1, done |-> TRUE, chunks |-> <<>>]

EngineIdle ==
    [client |-> "none", pc |-> "done", attempt |-> 0, calls |-> 0,
     responses |-> <<>>, delays |-> <<>>, result |-> "none", time |-> 0,
     issued |-> <<>>]

CallbackIdle ==
    [pc |-> "idle", route |-> "none", token |-> Null, body |-> Malformed,
     status |-> 0, deduplicated |-> FALSE, todo |-> <<>>, throws |-> FALSE,
     sent |-> <<>>, caught |-> FALSE, quiet |-> FALSE]

VerifyNone == [body |-> 1, sig256 |-> Null, sig1 |-> Null, secret |-> 1]

(***************************************************************************)
(* index.ts: the callback routes.  A route handler's result is the HTTP    *)
(* response (status, X-Deduplicated header) and, when it hands the         *)
(* callback to waitUntil, the plan of the background task.                 *)
(***************************************************************************)
Respond(status) ==
    [status |-> status, deduplicated |-> FALSE, run |-> FALSE, plan |-> NoSends]
RespondAndRun(status, plan) ==
    [status |-> status, deduplicated |-> FALSE, run |-> TRUE, plan |-> plan]

\* A variant that parses the body before it checks the token.
completionCallbackRouteParseFirst(token, body) ==
    IF body.kind = "malformed" THEN Respond(400)
    ELSE IF token # ENGINE_API_KEY
    THEN RespondAndRun(401, handleCompletionCallback(body))
    ELSE RespondAndRun(200, handleCompletionCallback(body))

\* app.post('/completion-callback')
completionCallbackRoute(token, body) ==
    IF token # ENGINE_API_KEY THEN Respond(401)
    ELSE IF body.kind = "malformed" THEN Respond(400)
    ELSE RespondAndRun(200, handleCompletionCallback(body))

\* A variant that answers a progress callback as a duplicate: 200 with the
\* marker and no background task.
progressCallbackRouteAsDuplicate(token, body) ==
    IF token # ENGINE_API_KEY THEN Respond(401)
    ELSE IF body.kind = "malformed" THEN Respond(400)
    ELSE [Respond(200) EXCEPT !.deduplicated = TRUE]

\* app.post('/progress-callback')
progressCallbackRoute(token, body) ==
    IF token # ENGINE_API_KEY THEN Respond(401)
    ELSE IF body.kind = "malformed" THEN Respond(400)
    ELSE RespondAndRun(200, handleProgressCallback(body))

(***************************************************************************)
(* The callback requests of the model.                                     *)
(***************************************************************************)
CompletedBody(mid, responses) ==
    [NoFields EXCEPT !.message_id = JStr(mid), !.user_id = JStr(U1),
                     !.status = JStr(COMPLETED), !.responses = responses]
ErrorBody(mid) ==
    [NoFields EXCEPT !.message_id = JStr(mid), !.user_id = JStr(U1),
                     !.status = JStr(ERROR)]

\* Bodies that satisfy the CompletionCallback schema.
ValidCompletionFields ==
    { CompletedBody(M1, JArr(<<EStr(HI)>>)),
      CompletedBody(M2, JArr(<<EStr(HI)>>)),
      CompletedBody(M1, JArr(<<EStr(LONG), EStr(YO)>>)),
      ErrorBody(M1),
      [ErrorBody(M1) EXCEPT !.error = JStr(BOOM),
                            !.responses = JArr(<<EStr(HI)>>)] }

\* One field of a valid body replaced by a value the schema forbids there.
InvalidCompletionFields ==
    { [CompletedBody(M1, JArr(<<EStr(HI)>>)) EXCEPT !.message_id = v] :
         v \in {JUndef, JStr(<<>>)} }
        \cup { [CompletedBody(M1, JArr(<<EStr(HI)>>)) EXCEPT !.user_id = v] :
                 v \in {JUndef, JStr(<<>>), JNum} }
        \cup { [CompletedBody(M1, JArr(<<EStr(HI)>>)) EXCEPT !.status = v] :
                 v \in {JUndef, JStr(UNKNOWN)} }
        \cup { CompletedBody(M1, v) :
                 v \in {JUndef, JNum, JStr(<<72>>), JArr(<<ENum>>),
                        JArr(<<EStr(HI), ENum>>)} }

CompletionBodies ==
    {Malformed, NonObject}
        \cup { Object(f) : f \in ValidCompletionFields \cup InvalidCompletionFields }

ProgressFields(key, text) ==
    [NoFields EXCEPT !.user_id = JStr(U1), !.message_key = JStr(key),
                     !.text = text]

ValidProgressFields ==
    { ProgressFields(M1, JStr(WORKING)) }

InvalidProgressFields ==
    { [ProgressFields(M1, JStr(WORKING)) EXCEPT !.user_id = v] :
         v \in {JUndef, JStr(<<>>)} }
        \cup { [ProgressFields(M1, JStr(WORKING)) EXCEPT !.message_key = JUndef] }
        \cup { ProgressFields(M1, JUndef) }

ProgressBodies ==
    {Malformed, NonObject}
        \cup { Object(f) : f \in ValidProgressFields \cup InvalidProgressFields }

\* Requests without the configured token carry a few of the bodies.
UnauthenticatedCompletionBodies ==
    { Malformed, Object(CompletedBody(M1, JArr(<<EStr(HI)>>))) }
UnauthenticatedProgressBodies ==
    { Object(ProgressFields(M1, JStr(WORKING))) }

CallbackRequests ==
    { [route |-> "completion", token |-> ENGINE_API_KEY, body |-> b] :
         b \in CompletionBodies }
        \cup { [route |-> "completion", token |-> t, body |-> b] :
                 t \in Tokens \ {ENGINE_API_KEY},
                 b \in UnauthenticatedCompletionBodies }
        \cup { [route |-> "progress", token |-> ENGINE_API_KEY, body |-> b] :
                 b \in ProgressBodies }
        \cup { [route |-> "progress", token |-> t, body |-> b] :
                 t \in Tokens \ {ENGINE_API_KEY},
                 b \in UnauthenticatedProgressBodies }

(***************************************************************************)
(* Specification SpecCallback: up to MaxCallbacks callback requests, whose *)
(* background tasks interleave at their awaits.                            *)
(***************************************************************************)
CallbackSlots == 1..MaxCallbacks

\* The outcomes of one sendTextMessage to the Meta API: it returns true,
\* returns false (response not ok), or throws (fetch rejects).
SendOutcomes == {"ok", "failed", "throw"}

\* Request r arrives as the i-th callback request; quiet (not program
\* state) records that the handling of every earlier request had finished.
Arrive(i, r, result) ==
    /\ cb[i].pc = "idle"
    /\ IF i = 1 THEN TRUE ELSE cb[i - 1].pc # "idle"
    /\ cb' = [cb EXCEPT ![i] =
                 [pc |-> IF result.run /\ result.plan.sends # <<>>
                         THEN "background" ELSE "done",
                  route |-> r.route, token |-> r.token, body |-> r.body,
                  status |-> result.status,
                  deduplicated |-> result.deduplicated,
                  todo |-> result.plan.sends,
                  throws |-> result.plan.throws,
                  sent |-> <<>>,
                  caught |-> result.run /\ result.plan.sends = <<>>
                                 /\ result.plan.throws,
                  quiet |-> \A j \in CallbackSlots :
                                cb[j].pc \in {"idle", "done"}]]
    /\ UNCHANGED <<vin, vout, cmp, dedup, wh, now, eng, ch, hs>>

\* A variant that keeps one completion callback per worker: a callback that
\* arrives after another completion callback is answered as a duplicate.
PostCompletionCallbackOnePerWorker(i) ==
    \E r \in CallbackRequests :
        /\ r.route = "completion"
        /\ Arrive(i, r,
               IF \E j \in CallbackSlots : j # i /\ cb[j].route = "completion"
               THEN [Respond(200) EXCEPT !.deduplicated = TRUE]
               ELSE completionCallbackRoute(r.token, r.body))

PostCompletionCallback(i) ==
    \E r \in CallbackRequests :
        /\ r.route = "completion"
        /\ Arrive(i, r, completionCallbackRoute(r.token, r.body))

PostProgressCallback(i) ==
    \E r \in CallbackRequests :
        /\ r.route = "progress"
        /\ Arrive(i, r, progressCallbackRoute(r.token, r.body))

\* A variant that stops the delivery when a send returns false.
sendsLeftAfterChecked(outcome, todo) ==
    IF outcome # "ok" THEN <<>> ELSE Tail(todo)

\* The sends left once the awaited send has settled: the loops of
\* sendResponses do not read the boolean the send returns, and a throw
\* leaves them.
sendsLeftAfter(outcome, todo) ==
    IF outcome = "throw" THEN <<>> ELSE Tail(todo)

\* A variant in which a throw is not caught by the task and ends every
\* background task of the worker.
OutboundSendSettlesUnhandled(i) ==
    \E outcome \in SendOutcomes :
        /\ cb[i].pc = "background"
        /\ LET send == Head(cb[i].todo)
               left == sendsLeftAfter(outcome, cb[i].todo)
           IN  cb' = [j \in CallbackSlots |->
                   IF j = i
                   THEN [cb[i] EXCEPT
                            !.sent = Append(@, [to |-> send.to, text |-> send.text,
                                                result |-> outcome]),
                            !.todo = left,
                            !.pc = IF left = <<>> THEN "done" ELSE "background",
                            !.caught = left = <<>> /\ outcome # "throw"
                                           /\ cb[i].throws]
                   ELSE IF outcome = "throw" /\ cb[j].pc = "background"
                   THEN [cb[j] EXCEPT !.pc = "done", !.todo = <<>>]
                   ELSE cb[j]]
        /\ UNCHANGED <<vin, vout, cmp, dedup, wh, now, eng, ch, hs>>

\* The pending `await sendToWhatsApp(...)` of request i's background task
\* settles.  A throw ends the task in the .catch of waitUntil; after the
\* last send the task ends, by the throw its plan ends with or normally.
OutboundSendSettles(i) ==
    \E outcome \in SendOutcomes :
        /\ cb[i].pc = "background"
        /\ LET send == Head(cb[i].todo)
               left == sendsLeftAfter(outcome, cb[i].todo)
           IN  cb' = [cb EXCEPT
                   ![i].sent = Append(@, [to |-> send.to, text |-> send.text,
                                          result |-> outcome]),
                   ![i].todo = left,
                   ![i].pc = IF left = <<>> THEN "done" ELSE "background",
                   ![i].caught = outcome = "throw"
                                     \/ (left = <<>> /\ cb[i].throws)]
        /\ UNCHANGED <<vin, vout, cmp, dedup, wh, now, eng, ch, hs>>

InitCallback ==
    /\ cb = [i \in CallbackSlots |-> CallbackIdle]
    /\ dedup = {}
    /\ ch = ChunkIdle
    /\ hs = HandshakeIdle
    /\ wh = WebhookIdle
    /\ now = NOW
    /\ eng = EngineIdle
    /\ vin = VerifyNone
    /\ vout = VerifyIdle
    /\ cmp = CompareIdle

NextCallback ==
    \E i \in CallbackSlots :
        \/ PostCompletionCallback(i)
        \/ PostProgressCallback(i)
        \/ OutboundSendSettles(i)

SpecCallback == InitCallback /\ [][NextCallback]_vars

(***************************************************************************)
(* services/engine-client.  The sources hold two versions of the module:   *)
(* sendMessage (the queued /api/v1/message client, which the message       *)
(* handler imports as sendToEngine) and sendTextMessage with fetchWithRetry *)
(* (the /api/v1/chat client).                                              *)
(*                                                                         *)
(* A backend response is a status with an optional Retry-After header, or  *)
(* the rejection of the fetch (a network error).                           *)
(***************************************************************************)
HTTP_TOO_MANY_REQUESTS == 429
MAX_RETRIES == 5
BASE_DELAY_MS == 2000
\* RETRY_MULTIPLIER = 1.5, as the fraction 3 / 2
RETRY_MULTIPLIER_NUM == 3
RETRY_MULTIPLIER_DEN == 2

RETRY_AFTER_1 == <<49>>              \* "1"
RETRY_AFTER_30 == <<51, 48>>         \* "30"
\* json: response.json() resolves (the body is JSON).
Response(status, retryAfter) ==
    [rejected |-> FALSE, status |-> status, retryAfter |-> retryAfter,
     json |-> TRUE]
Unparsable(response) == [response EXCEPT !.json = FALSE]
Rejected ==
    [rejected |-> TRUE, status |-> 0, retryAfter |-> Null, json |-> FALSE]

EngineResponses ==
    { Response(200, Null), Unparsable(Response(200, Null)),
      Response(500, Null),
      Response(HTTP_TOO_MANY_REQUESTS, Null),
      Response(HTTP_TOO_MANY_REQUESTS, Str(RETRY_AFTER_1)),
      Response(HTTP_TOO_MANY_REQUESTS, Str(RETRY_AFTER_30)),
      Rejected }

\* response.ok
Ok(response) == response.status >= 200 /\ response.status <= 299

\* A variant without the try/catch: a rejection reaches the caller.
ClientResultUncaught(response) ==
    IF response.rejected THEN "throw"
    ELSE IF ~Ok(response) THEN "null"
    ELSE IF ~response.json THEN "throw"
    ELSE "ack"

\* What both clients return for the response they end with: the parsed
\* body ("ack") when it is ok, null otherwise and when the fetch or
\* response.json() rejected (the catch).
ClientResult(response) ==
    IF response.rejected THEN "null"
    ELSE IF ~Ok(response) THEN "null"
    ELSE IF ~response.json THEN "null"
    ELSE "ack"

RECURSIVE Pow(_, _)
Pow(x, n) == IF n = 0 THEN 1 ELSE x * Pow(x, n - 1)

\* parseFloat(retryAfter) * 1000
RetryAfterMs(retryAfter) == ParseDigits(retryAfter, 0) * 1000

\* A variant whose backoff exponent is one too large.
RetryDelayNextPower(response, attempt) ==
    IF Truthy(response.retryAfter)
    THEN RetryAfterMs(response.retryAfter.s)
    ELSE (BASE_DELAY_MS * Pow(RETRY_MULTIPLIER_NUM, attempt + 1))
             \div Pow(RETRY_MULTIPLIER_DEN, attempt + 1)

\* The delay fetchWithRetry sleeps after a 429 in iteration attempt.
RetryDelay(response, attempt) ==
    IF Truthy(response.retryAfter)
    THEN RetryAfterMs(response.retryAfter.s)
    ELSE (BASE_DELAY_MS * Pow(RETRY_MULTIPLIER_NUM, attempt))
             \div Pow(RETRY_MULTIPLIER_DEN, attempt)

\* A variant that also retries after a server error.
FetchWithRetryStepOnErrors(response, attempt) ==
    IF attempt < MAX_RETRIES /\ response.status \in {HTTP_TOO_MANY_REQUESTS, 500}
    THEN [retry |-> TRUE, delay |-> RetryDelay(response, attempt)]
    ELSE [retry |-> FALSE, delay |-> 0]

\* fetchWithRetry after a fetch returned response with the loop counter at
\* attempt: it returns the response, or sleeps and fetches again.
FetchWithRetryStep(response, attempt) ==
    IF attempt < MAX_RETRIES /\ response.status = HTTP_TOO_MANY_REQUESTS
    THEN [retry |-> TRUE, delay |-> RetryDelay(response, attempt)]
    ELSE [retry |-> FALSE, delay |-> 0]

\* sendMessage after its one fetch returned response: it never fetches
\* again.
SendMessageStep(response, attempt) == [retry |-> FALSE, delay |-> 0]

ClientStep(client, response, attempt) ==
    IF response.rejected THEN [retry |-> FALSE, delay |-> 0]
    ELSE IF client = "sendTextMessage" THEN FetchWithRetryStep(response, attempt)
    ELSE SendMessageStep(response, attempt)

EngineClients == {"sendMessage", "sendTextMessage"}

(***************************************************************************)
(* services/message-handler: the webhook path.                             *)
(***************************************************************************)
VOICE_NOTICE == <<86, 111, 105, 99, 101>>      \* "Voice ... unavailable"

parseMessageType(type) ==
    IF type \in {"text", "audio", "image", "document", "sticker", "location",
                 "contacts", "interactive", "button"}
    THEN type
    ELSE "unknown"

\* a ?? b on values that are a string or undefined
Coalesce(a, b) == IF a.null THEN b ELSE a

extractTextFromText(raw) == Coalesce(raw.text_body, Str(<<>>))
\* A variant that prefers the title of the list reply.
extractTextFromInteractiveListFirst(raw) ==
    Coalesce(raw.list_reply_title, Coalesce(raw.button_reply_title, Str(<<>>)))

extractTextFromInteractive(raw) ==
    Coalesce(raw.button_reply_title, Coalesce(raw.list_reply_title, Str(<<>>)))
extractTextFromButton(raw) == Coalesce(raw.button_text, Str(<<>>))

extractText(raw, type) ==
    IF type = "text" THEN extractTextFromText(raw)
    ELSE IF type = "interactive" THEN extractTextFromInteractive(raw)
    ELSE IF type = "button" THEN extractTextFromButton(raw)
    ELSE Str(<<>>)

\* contacts[0]?.wa_id
FirstWaId(contacts) == IF contacts = <<>> THEN Null ELSE contacts[1]

\* A variant that falls back to raw.from with || instead of ??.
parseMessageOrFrom(raw, contacts) ==
    [userId |-> IF FirstWaId(contacts) \in {Null, Str(<<>>)} THEN raw.from
                ELSE FirstWaId(contacts),
     messageId |-> raw.id,
     messageType |-> parseMessageType(raw.type),
     timestamp |-> parseInt10(raw.timestamp),
     text |-> extractText(raw, parseMessageType(raw.type))]

parseMessage(raw, contacts) ==
    [userId |-> Coalesce(FirstWaId(contacts), raw.from),
     messageId |-> raw.id,
     messageType |-> parseMessageType(raw.type),
     timestamp |-> parseInt10(raw.timestamp),
     text |-> extractText(raw, parseMessageType(raw.type))]

\* A variant that also admits the types that carry text.
isSupportedTypeWithText(type) ==
    type \in {"text", "audio", "interactive", "button"}

isSupportedType(type) == type = "text" \/ type = "audio"

\* A variant that rejects a message aged exactly the cutoff.
isMessageTooOldInclusive(timestamp, cutoffSeconds, clock) ==
    ~timestamp.nan /\ clock - timestamp.v >= cutoffSeconds

\* now - timestamp > cutoffSeconds, with now the clock; a comparison with
\* NaN is false.
isMessageTooOld(timestamp, cutoffSeconds, clock) ==
    ~timestamp.nan /\ clock - timestamp.v > cutoffSeconds

\* A variant without the check of the type.
validateMessageAnyType(message, clock) ==
    IF isMessageTooOld(message.timestamp, CutoffSeconds, clock) THEN "stale"
    ELSE IF message.messageType = "audio" THEN "audio"
    ELSE "valid"

\* A variant without the branch for audio.
validateMessageAudioValid(message, clock) ==
    IF ~isSupportedType(message.messageType) THEN "unsupported"
    ELSE IF isMessageTooOld(message.timestamp, CutoffSeconds, clock) THEN "stale"
    ELSE "valid"

\* validateMessage up to its await: "unsupported", "stale", "audio" (the
\* notice is being sent) or "valid".
validateMessage(message, clock) ==
    IF ~isSupportedType(message.messageType) THEN "unsupported"
    ELSE IF isMessageTooOld(message.timestamp, CutoffSeconds, clock) THEN "stale"
    ELSE IF message.messageType = "audio" THEN "audio"
    ELSE "valid"

\* The messages of a payload in the order handleWebhook visits them, each
\* with the contacts of its change.
RECURSIVE MessagesOfChange(_, _)
MessagesOfChange(contacts, messages) ==
    IF messages = <<>> THEN <<>>
    ELSE <<[raw |-> Head(messages), contacts |-> contacts]>>
             \o MessagesOfChange(contacts, Tail(messages))

RECURSIVE MessagesOfChanges(_)
MessagesOfChanges(changes) ==
    IF changes = <<>> THEN <<>>
    ELSE (IF Head(changes).field # "messages" THEN <<>>
          ELSE MessagesOfChange(Head(changes).contacts, Head(changes).messages))
             \o MessagesOfChanges(Tail(changes))

RECURSIVE MessagesOfEntries(_)
MessagesOfEntries(entries) ==
    IF entries = <<>> THEN <<>>
    ELSE MessagesOfChanges(Head(entries)) \o MessagesOfEntries(Tail(entries))

RECURSIVE Reversed(_)
Reversed(s) == IF s = <<>> THEN <<>> ELSE Append(Reversed(Tail(s)), Head(s))

\* A variant that visits the entries from the last to the first.
handleWebhookLastEntryFirst(payload) == MessagesOfEntries(Reversed(payload.entry))

\* The messages handleWebhook passes to processMessage, one after the
\* other, for a payload that has an entry list.
handleWebhook(payload) == MessagesOfEntries(payload.entry)

(***************************************************************************)
(* The webhook bodies of the model.                                        *)
(***************************************************************************)
W1 == <<119, 49>>                  \* "w1", a WhatsApp id
W2 == <<119, 50>>                  \* "w2"
W3 == <<119, 51>>                  \* "w3"
ID1 == <<105, 49>>                 \* "i1", a message id
ID2 == <<105, 50>>
ID3 == <<105, 51>>
HELLO == <<72, 101, 108, 108, 111>>

Raw(id, type, timestamp) ==
    [id |-> id, from |-> Str(W1), timestamp |-> Digits(timestamp), type |-> type,
     text_body |-> Null, button_reply_title |-> Null, list_reply_title |-> Null,
     button_text |-> Null]
TextRaw(id, timestamp) == [Raw(id, "text", timestamp) EXCEPT !.text_body = Str(HELLO)]

Change(contacts, messages) ==
    [field |-> "messages", contacts |-> contacts, messages |-> messages]

\* JSON.parse(body): not JSON, an object without entry, or a payload.
WebhookPayloads ==
    << [kind |-> "malformed", entry |-> <<>>],
       [kind |-> "noentry", entry |-> <<>>],
       [kind |-> "payload", entry |-> <<>>],
       [kind |-> "payload", entry |->
           << <<Change(<<Str(W2)>>, <<TextRaw(ID1, NOW)>>)>> >>],
       [kind |-> "payload", entry |->
           << <<Change(<<>>, <<Raw(ID1, "audio", NOW), TextRaw(ID2, NOW)>>)>> >>],
       [kind |-> "payload", entry |->
           << <<[Change(<<>>, <<TextRaw(ID1, NOW)>>) EXCEPT !.field = "statuses"],
                Change(<<>>, <<Raw(ID1, "image", NOW)>>)>>,
              <<Change(<<Str(W2)>>,
                       <<TextRaw(ID2, NOW - CutoffSeconds - 1),
                         TextRaw(ID3, NOW - CutoffSeconds)>>)>> >>],
       [kind |-> "payload", entry |->
           << <<Change(<<>>, <<Raw(ID1, "audio", NOW - CutoffSeconds - 1),
                               Raw(ID2, "text", NOW),
                               [Raw(ID3, "interactive", NOW) EXCEPT
                                    !.button_reply_title = Str(HI)]>>)>> >>],
       [kind |-> "payload", entry |->
           << <<Change(<<Str(W2), Str(W3)>>,
                       <<Raw(ID1, "document", NOW), Raw(ID1, "sticker", NOW),
                         Raw(ID1, "location", NOW), Raw(ID1, "contacts", NOW),
                         [Raw(ID1, "button", NOW) EXCEPT !.button_text = Str(HI)],
                         Raw(ID1, "reaction", NOW),
                         Raw(ID2, "audio", NOW - (2 * CutoffSeconds)),
                         TextRaw(ID3, NOW - CutoffSeconds),
                         Raw(ID2, "audio", NOW)>>)>> >>],
       [kind |-> "payload", entry |->
           << <<Change(<<>>, <<[TextRaw(ID1, NOW) EXCEPT !.timestamp = <<>>],
                               Raw(ID2, "audio", NOW)>>)>> >>],
       [kind |-> "payload", entry |->
           << <<Change(<<Str(<<>>)>>, <<TextRaw(ID3, NOW)>>)>> >>],
       [kind |-> "payload", entry |->
           << <<Change(<<>>,
                       <<[Raw(ID1, "interactive", NOW) EXCEPT
                              !.button_reply_title = Str(HI),
                              !.list_reply_title = Str(YO)],
                         [Raw(ID2, "interactive", NOW) EXCEPT
                              !.list_reply_title = Str(YO)],
                         Raw(ID3, "interactive", NOW),
                         Raw(ID1, "button", NOW),
                         [Raw(ID2, "image", NOW) EXCEPT !.text_body = Str(HELLO)],
                         [Raw(ID3, "audio", NOW) EXCEPT !.text_body = Str(HELLO)],
                         [Raw(ID1, "Text", NOW) EXCEPT
                              !.text_body = Str(HELLO)]>>)>> >>] >>

WebhookBodies == 1..Len(WebhookPayloads)

\* c.env.META_APP_SECRET and c.env.FACEBOOK_USER_AGENT
META_APP_SECRET == 1
OTHER_SECRET == META_APP_SECRET + 1
FACEBOOK_USER_AGENT == <<117, 97>>             \* "ua"
OTHER_USER_AGENT == <<120>>
\* A no-break space, which a header value keeps and trim() removes.
NBSP == <<160>>

Authentic(body) ==
    [body |-> body, sig256 |-> Str(Sign256(body, META_APP_SECRET)),
     sig1 |-> Null, userAgent |-> Str(FACEBOOK_USER_AGENT)]

\* The header variations, put on three of the bodies.
VariedBodies == {1, 2, 4}

WebhookRequests ==
    { Authentic(b) : b \in WebhookBodies }
        \cup UNION { { [Authentic(b) EXCEPT !.sig256 = s256, !.sig1 = s1] :
                         s256 \in {Null, Str(Sign256(b, OTHER_SECRET)),
                                   Str(Padded(Sign256(b, META_APP_SECRET)))},
                         s1 \in {Null, Str(Sign1(b, META_APP_SECRET)),
                                 Str(Sign1(b, OTHER_SECRET))} } :
                      b \in VariedBodies }
        \cup { [Authentic(b) EXCEPT !.userAgent = ua] :
                 b \in VariedBodies,
                 ua \in {Null, Str(OTHER_USER_AGENT),
                         Str(FACEBOOK_USER_AGENT \o NBSP)} }
        \cup { [Authentic(b) EXCEPT !.userAgent = Str(OTHER_USER_AGENT),
                                    !.sig256 = Null] : b \in VariedBodies }

(***************************************************************************)
(* index.ts: app.post('/meta-whatsapp').                                   *)
(***************************************************************************)
\* userAgent?.trim(): undefined stays undefined
TrimOptional(h) == IF h.null THEN Null ELSE Str(Trim(h.s))

\* A variant that parses the body before it verifies the request.
webhookRouteParseFirst(r) ==
    IF WebhookPayloads[r.body].kind = "malformed" THEN 400
    ELSE IF ~verifyFacebookSignature(r.body, r.sig256, r.sig1, META_APP_SECRET)
    THEN 401
    ELSE IF TrimOptional(r.userAgent) # Str(FACEBOOK_USER_AGENT) THEN 401
    ELSE 200

\* A variant that awaits handleWebhook and answers 500 when it throws at
\* once.
webhookRouteAwaitsTask(r) ==
    IF ~verifyFacebookSignature(r.body, r.sig256, r.sig1, META_APP_SECRET)
    THEN 401
    ELSE IF TrimOptional(r.userAgent) # Str(FACEBOOK_USER_AGENT) THEN 401
    ELSE IF WebhookPayloads[r.body].kind = "malformed" THEN 400
    ELSE IF WebhookPayloads[r.body].kind = "noentry" THEN 500
    ELSE 200

\* The status the route answers; handleWebhook is handed to waitUntil
\* exactly when it is 200.
webhookRoute(r) ==
    IF ~verifyFacebookSignature(r.body, r.sig256, r.sig1, META_APP_SECRET)
    THEN 401
    ELSE IF TrimOptional(r.userAgent) # Str(FACEBOOK_USER_AGENT) THEN 401
    ELSE IF WebhookPayloads[r.body].kind = "malformed" THEN 400
    ELSE 200

(***************************************************************************)
(* Specification SpecWebhook: one POST to /meta-whatsapp and its           *)
(* background task.                                                        *)
(***************************************************************************)
Event(kind, to, text, result) ==
    [kind |-> kind, n |-> wh.n, to |-> to, text |-> text, result |-> result]

\* The request arrives and is answered; with 200 the background task
\* starts, and ends at once (in the .catch of waitUntil) when the payload
\* has no entry to iterate.
PostWebhookOf(r) ==
    /\ wh.pc = "idle"
    /\ LET status == webhookRoute(r)
           payload == WebhookPayloads[r.body]
       IN  wh' = [wh EXCEPT
               !.req = r,
               !.status = status,
               !.pc = IF status = 200 /\ payload.kind = "payload"
                      THEN "next" ELSE "done",
               !.queue = IF status = 200 /\ payload.kind = "payload"
                         THEN handleWebhook(payload) ELSE <<>>,
               !.caught = status = 200 /\ payload.kind = "noentry"]
    /\ UNCHANGED <<vin, vout, cmp, cb, dedup, eng, now, ch, hs>>

PostWebhook == \E r \in WebhookRequests : PostWebhookOf(r)

\* processMessage on the next message, up to its first await: parse, log
\* (message.userId.slice throws without a user id), validate.  clocks (not
\* program state) keeps the clock each message was validated at.
ProcessMessage ==
    /\ wh.pc = "next"
    /\ wh.queue # <<>>
    /\ LET message == parseMessage(Head(wh.queue).raw, Head(wh.queue).contacts)
           verdict == validateMessage(message, now)
       IN  wh' = [wh EXCEPT
               !.queue = IF message.userId.null THEN <<>> ELSE Tail(@),
               !.msg = message,
               !.n = @ + 1,
               !.clocks = Append(@, now),
               !.caught = message.userId.null,
               !.pc = IF message.userId.null THEN "done"
                      ELSE IF verdict = "audio" THEN "notice"
                      ELSE IF verdict = "valid" THEN "typing"
                      ELSE "next"]
    /\ UNCHANGED <<vin, vout, cmp, cb, dedup, eng, now, ch, hs>>

\* handleWebhook returns after the last message.
WebhookTaskEnds ==
    /\ wh.pc = "next"
    /\ wh.queue = <<>>
    /\ wh' = [wh EXCEPT !.pc = "done"]
    /\ UNCHANGED <<vin, vout, cmp, cb, dedup, eng, now, ch, hs>>

\* An awaited call to the Meta API settles; a throw ends handleWebhook.
MetaCallSettles(pc, kind, to, text, then) ==
    \E outcome \in SendOutcomes :
        /\ wh.pc = pc
        /\ wh' = [wh EXCEPT
               !.events = Append(@, Event(kind, to, text, outcome)),
               !.pc = IF outcome = "throw" THEN "done" ELSE then,
               !.queue = IF outcome = "throw" THEN <<>> ELSE @,
               !.caught = outcome = "throw"]
        /\ UNCHANGED <<vin, vout, cmp, cb, dedup, eng, now, ch, hs>>

\* validateMessage: the voice notice.
VoiceNoticeSettles ==
    MetaCallSettles("notice", "text", wh.msg.userId, VOICE_NOTICE, "next")

\* sendTypingIndicator(message.messageId); sendToEngine then issues its
\* fetch.
TypingIndicatorSettles ==
    MetaCallSettles("typing", "typing", Str(wh.msg.messageId), <<>>, "engine")

\* The fetch of sendToEngine (sendMessage) settles: a result is logged, and
\* null leads to the apology.
EngineCallSettles ==
    \E response \in EngineResponses :
        /\ wh.pc = "engine"
        /\ ~ClientStep("sendMessage", response, 0).retry
        /\ wh' = [wh EXCEPT
               !.events = Append(@, Event("engine", wh.msg.userId, wh.msg.text.s,
                                          ClientResult(response))),
               !.pc = IF ClientResult(response) = "null" THEN "apology" ELSE "next"]
        /\ UNCHANGED <<vin, vout, cmp, cb, dedup, eng, now, ch, hs>>

ApologySettles ==
    MetaCallSettles("apology", "text", wh.msg.userId, ERROR_NOTICE, "next")

\* A second passes.
Tick ==
    /\ wh.pc \notin {"idle", "done"}
    /\ now < NOW + MaxTicks
    /\ now' = now + 1
    /\ UNCHANGED <<vin, vout, cmp, cb, dedup, eng, wh, ch, hs>>

InitWebhook ==
    /\ wh = WebhookIdle
    /\ now = NOW
    /\ eng = EngineIdle
    /\ vin = VerifyNone
    /\ vout = VerifyIdle
    /\ cmp = CompareIdle
    /\ cb = [i \in 1..MaxCallbacks |-> CallbackIdle]
    /\ dedup = {}
    /\ ch = ChunkIdle
    /\ hs = HandshakeIdle

NextWebhook ==
    \/ PostWebhook
    \/ ProcessMessage
    \/ WebhookTaskEnds
    \/ VoiceNoticeSettles
    \/ TypingIndicatorSettles
    \/ EngineCallSettles
    \/ ApologySettles
    \/ Tick

SpecWebhook == InitWebhook /\ [][NextWebhook]_vars

(***************************************************************************)
(* Specification SpecEngine: one call of an engine client against every    *)
(* sequence of backend responses.                                          *)
(***************************************************************************)
\* The client is called and issues its first fetch.
InitEngine ==
    /\ eng \in [client : EngineClients, pc : {"fetch"}, attempt : {0},
                calls : {1}, responses : {<<>>}, delays : {<<>>},
                result : {"pending"}, time : {0}, issued : {<<0>>}]
    /\ vin = VerifyNone
    /\ vout = VerifyIdle
    /\ cmp = CompareIdle
    /\ cb = [i \in 1..MaxCallbacks |-> CallbackIdle]
    /\ dedup = {}
    /\ ch = ChunkIdle
    /\ hs = HandshakeIdle
    /\ wh = WebhookIdle
    /\ now = NOW

\* The pending fetch settles with response.
BackendResponds ==
    \E response \in EngineResponses :
        /\ eng.pc = "fetch"
        /\ LET step == ClientStep(eng.client, response, eng.attempt)
           IN  eng' = [eng EXCEPT
                   !.responses = Append(@, response),
                   !.pc = IF step.retry THEN "sleep" ELSE "done",
                   !.delays = IF step.retry THEN Append(@, step.delay) ELSE @,
                   !.result = IF step.retry THEN "pending"
                              ELSE ClientResult(response)]
        /\ UNCHANGED <<vin, vout, cmp, cb, dedup, wh, now, ch, hs>>

\* The sleep of fetchWithRetry ends, the delay it was given after it
\* began (time, in ms, passes only in the sleeps of the model): the loop
\* fetches again and counts.
SleepElapses ==
    /\ eng.pc = "sleep"
    /\ LET wake == eng.time + eng.delays[Len(eng.delays)]
       IN  eng' = [eng EXCEPT !.pc = "fetch", !.attempt = @ + 1,
                              !.calls = @ + 1, !.time = wake,
                              !.issued = Append(@, wake)]
    /\ UNCHANGED <<vin, vout, cmp, cb, dedup, wh, now, ch, hs>>

NextEngine == BackendResponds \/ SleepElapses

SpecEngine == InitEngine /\ [][NextEngine]_vars

(***************************************************************************)
(* Specification SpecVerify: the two verification functions applied to     *)
(* every combination of body, secret and header values.                    *)
(***************************************************************************)

InitVerify ==
    /\ vin \in [body : Bodies, sig256 : HeaderValues, sig1 : HeaderValues,
                secret : Secrets]
    /\ vout = VerifyIdle
    /\ cmp = CompareIdle
    /\ cb = [i \in 1..MaxCallbacks |-> CallbackIdle]
    /\ dedup = {}
    /\ ch = ChunkIdle
    /\ hs = HandshakeIdle
    /\ wh = WebhookIdle
    /\ now = NOW
    /\ eng = EngineIdle

CallVerifySignature ==
    /\ ~vout.sigDone
    /\ vout' = [vout EXCEPT !.sigDone = TRUE,
                            !.sig = verifySignature(vin.body, vin.sig256, vin.secret)]
    /\ UNCHANGED <<vin, cmp, cb, dedup, wh, now, eng, ch, hs>>

CallVerifyFacebookSignature ==
    /\ ~vout.fbDone
    /\ vout' = [vout EXCEPT !.fbDone = TRUE,
                            !.fb = verifyFacebookSignature(vin.body, vin.sig256,
                                                           vin.sig1, vin.secret)]
    /\ UNCHANGED <<vin, cmp, cb, dedup, wh, now, eng, ch, hs>>

NextVerify == CallVerifySignature \/ CallVerifyFacebookSignature

SpecVerify == InitVerify /\ [][NextVerify]_vars

(***************************************************************************)
(* Specification SpecCompare: constantTimeCompare applied to every pair of *)
(* strings up to MaxStrLen over a three-letter alphabet.                   *)
(***************************************************************************)
Alphabet == {97, 98, 65}       \* "a", "b", "A"

RECURSIVE StringsUpTo(_)
StringsUpTo(n) ==
    IF n = 0 THEN {<<>>}
    ELSE LET shorter == StringsUpTo(n - 1)
         IN  shorter \cup { Append(s, c) : s \in shorter, c \in Alphabet }

InitCompare ==
    /\ cmp \in [a : StringsUpTo(MaxStrLen), b : StringsUpTo(MaxStrLen),
                done : {FALSE}, result : {FALSE}, steps : {0}]
    /\ vin = VerifyNone
    /\ vout = VerifyIdle
    /\ cb = [i \in 1..MaxCallbacks |-> CallbackIdle]
    /\ dedup = {}
    /\ ch = ChunkIdle
    /\ hs = HandshakeIdle
    /\ wh = WebhookIdle
    /\ now = NOW
    /\ eng = EngineIdle

CallConstantTimeCompare ==
    /\ ~cmp.done
    /\ LET r == CompareRun(cmp.a, cmp.b)
       IN  cmp' = [cmp EXCEPT !.done = TRUE, !.result = r.result, !.steps = r.steps]
    /\ UNCHANGED <<vin, vout, cb, dedup, wh, now, eng, ch, hs>>

NextCompare == CallConstantTimeCompare

SpecCompare == InitCompare /\ [][NextCompare]_vars

(***************************************************************************)
(* Specification SpecChunk: chunkMessage applied to every text up to       *)
(* MaxTextLen over a letter, the space, the line feed and the delimiter    *)
(* characters, with every maxLength from 1 to MaxChunkLen.                 *)
(***************************************************************************)
ChunkAlphabet == {97, 32, 10, 46, 59}      \* "a", " ", "\n", ".", ";"

RECURSIVE TextsUpTo(_)
TextsUpTo(n) ==
    IF n = 0 THEN {<<>>}
    ELSE LET shorter == TextsUpTo(n - 1)
         IN  shorter \cup { Append(s, c) : s \in shorter, c \in ChunkAlphabet }

InitChunk ==
    /\ ch \in [text : TextsUpTo(MaxTextLen), maxLength : 1..MaxChunkLen,
                done : {FALSE}, chunks : {<<>>}]
    /\ hs = HandshakeIdle
    /\ vin = VerifyNone
    /\ vout = VerifyIdle
    /\ cmp = CompareIdle
    /\ cb = [i \in 1..MaxCallbacks |-> CallbackIdle]
    /\ dedup = {}
    /\ wh = WebhookIdle
    /\ now = NOW
    /\ eng = EngineIdle

CallChunkMessage ==
    /\ ~ch.done
    /\ ch' = [ch EXCEPT !.done = TRUE,
                        !.chunks = chunkMessage(ch.text, ch.maxLength)]
    /\ UNCHANGED <<vin, vout, cmp, cb, dedup, wh, now, eng, hs>>

NextChunk == CallChunkMessage

SpecChunk == InitChunk /\ [][NextChunk]_vars

(***************************************************************************)
(* index.ts: app.get('/meta-whatsapp'), the verification handshake.        *)
(***************************************************************************)
SUBSCRIBE == <<115, 117, 98>>                  \* 'subscribe', abbreviated
FORBIDDEN == <<70, 111, 114, 98>>              \* 'Forbidden', abbreviated
\* c.env.META_VERIFY_TOKEN
META_VERIFY_TOKEN == <<118, 116>>              \* "vt"

\* A variant that does not look at hub.mode.
verificationRouteAnyMode(mode, token, challenge) ==
    IF token = Str(META_VERIFY_TOKEN)
    THEN [status |-> 200, body |-> Coalesce(challenge, Str(<<>>)).s]
    ELSE [status |-> 403, body |-> FORBIDDEN]

\* The response to the query parameters hub.mode, hub.verify_token and
\* hub.challenge, each a string or undefined.
verificationRoute(mode, token, challenge) ==
    IF mode = Str(SUBSCRIBE) /\ token = Str(META_VERIFY_TOKEN)
    THEN [status |-> 200, body |-> Coalesce(challenge, Str(<<>>)).s]
    ELSE [status |-> 403, body |-> FORBIDDEN]

(***************************************************************************)
(* Specification SpecHandshake: one GET to /meta-whatsapp with every       *)
(* combination of the query parameters below.                              *)
(***************************************************************************)
\* absent, empty, 'subscribe', 'unsubscribe', 'Sub' (another case)
HandshakeModes ==
    {Null, Str(<<>>), Str(SUBSCRIBE), Str(<<117, 110>> \o SUBSCRIBE),
     Str(<<83, 117, 98>>)}
\* absent, empty, the configured token, another token, the configured
\* token followed by a space
HandshakeTokens ==
    {Null, Str(<<>>), Str(META_VERIFY_TOKEN), Str(<<119, 116>>),
     Str(META_VERIFY_TOKEN \o SPACE)}
\* absent, empty, two challenges, the text 'Forbidden'
HandshakeChallenges ==
    {Null, Str(<<>>), Str(<<99, 49>>), Str(<<99, 50>>), Str(FORBIDDEN)}

InitHandshake ==
    /\ hs = HandshakeIdle
    /\ ch = ChunkIdle
    /\ wh = WebhookIdle
    /\ now = NOW
    /\ eng = EngineIdle
    /\ vin = VerifyNone
    /\ vout = VerifyIdle
    /\ cmp = CompareIdle
    /\ cb = [i \in 1..MaxCallbacks |-> CallbackIdle]
    /\ dedup = {}

GetVerification ==
    \E mode \in HandshakeModes, token \in HandshakeTokens,
       challenge \in HandshakeChallenges :
        /\ hs.pc = "idle"
        /\ LET response == verificationRoute(mode, token, challenge)
           IN  hs' = [pc |-> "done", mode |-> mode, token |-> token,
                      challenge |-> challenge, status |-> response.status,
                      body |-> response.body]
        /\ UNCHANGED <<vin, vout, cmp, cb, dedup, wh, now, eng, ch>>

NextHandshake == GetVerification

SpecHandshake == InitHandshake /\ [][NextHandshake]_vars

(***************************************************************************)
(* Specification SpecCombine: combineChunks, one iteration of its loop at  *)
(* a time, on every sequence of up to MaxPieces chunks of 0 to MaxPieceLen *)
(* characters with every maxLength from 1 to MaxCombineLen.  Here ch holds *)
(* the call: its arguments, the index of the next chunk, current and       *)
(* combined.                                                               *)
(***************************************************************************)
\* The chunk of n characters: n times the n-th letter.
PieceOfLen(n) == [k \in 1..n |-> 96 + n]
CombinePieces == { PieceOfLen(n) : n \in 0..MaxPieceLen }

RECURSIVE PieceSeqsUpTo(_)
PieceSeqsUpTo(n) ==
    IF n = 0 THEN {<<>>}
    ELSE LET shorter == PieceSeqsUpTo(n - 1)
         IN  shorter \cup { Append(q, c) : q \in shorter, c \in CombinePieces }

InitCombine ==
    /\ ch \in [chunks : PieceSeqsUpTo(MaxPieces), maxLength : 1..MaxCombineLen,
                i : {1}, current : {<<>>}, combined : {<<>>}, pc : {"loop"}]
    /\ hs = HandshakeIdle
    /\ wh = WebhookIdle
    /\ now = NOW
    /\ eng = EngineIdle
    /\ vin = VerifyNone
    /\ vout = VerifyIdle
    /\ cmp = CompareIdle
    /\ cb = [i \in 1..MaxCallbacks |-> CallbackIdle]
    /\ dedup = {}

CombineChunksIterates ==
    /\ ch.pc = "loop"
    /\ ch.i <= Len(ch.chunks)
    /\ LET after == combineChunksIteration(ch.current, ch.combined,
                                           ch.chunks[ch.i], ch.maxLength)
       IN  ch' = [ch EXCEPT !.i = @ + 1, !.current = after.current,
                            !.combined = after.combined]
    /\ UNCHANGED <<vin, vout, cmp, cb, dedup, wh, now, eng, hs>>

CombineChunksReturns ==
    /\ ch.pc = "loop"
    /\ ch.i > Len(ch.chunks)
    /\ ch' = [ch EXCEPT !.pc = "done",
                        !.combined = combineChunksReturn(ch.current, ch.combined)]
    /\ UNCHANGED <<vin, vout, cmp, cb, dedup, wh, now, eng, hs>>

NextCombine == CombineChunksIterates \/ CombineChunksReturns

SpecCombine == InitCombine /\ [][NextCombine]_vars

(***************************************************************************)
(* Specification SpecGateway: one webhook request and up to MaxCallbacks   *)
(* callback requests in one worker, their background tasks interleaving at *)
(* their awaits.  The requests are those whose tasks can throw at once,    *)
(* throw after a send, or make sends that can throw.                       *)
(***************************************************************************)
\* An object without entry; an audio message followed by a text message.
GatewayWebhookRequests == { Authentic(2), Authentic(5) }

\* JSON null; one response; a response followed by a number; a progress
\* update.
GatewayCallbackRequests ==
    { [route |-> "completion", token |-> ENGINE_API_KEY, body |-> b] :
         b \in { NonObject,
                 Object(CompletedBody(M1, JArr(<<EStr(HI)>>))),
                 Object(CompletedBody(M1, JArr(<<EStr(HI), ENum>>))) } }
        \cup { [route |-> "progress", token |-> ENGINE_API_KEY,
                body |-> Object(ProgressFields(M1, JStr(WORKING)))] }

GatewayPostWebhook == \E r \in GatewayWebhookRequests : PostWebhookOf(r)

GatewayPostCompletionCallback(i) ==
    \E r \in GatewayCallbackRequests :
        /\ r.route = "completion"
        /\ Arrive(i, r, completionCallbackRoute(r.token, r.body))

GatewayPostProgressCallback(i) ==
    \E r \in GatewayCallbackRequests :
        /\ r.route = "progress"
        /\ Arrive(i, r, progressCallbackRoute(r.token, r.body))

InitGateway ==
    /\ cb = [i \in CallbackSlots |-> CallbackIdle]
    /\ wh = WebhookIdle
    /\ dedup = {}
    /\ now = NOW
    /\ ch = ChunkIdle
    /\ hs = HandshakeIdle
    /\ eng = EngineIdle
    /\ vin = VerifyNone
    /\ vout = VerifyIdle
    /\ cmp = CompareIdle

NextGateway ==
    \/ GatewayPostWebhook
    \/ ProcessMessage
    \/ WebhookTaskEnds
    \/ VoiceNoticeSettles
    \/ TypingIndicatorSettles
    \/ EngineCallSettles
    \/ ApologySettles
    \/ \E i \in CallbackSlots :
           \/ GatewayPostCompletionCallback(i)
           \/ GatewayPostProgressCallback(i)
           \/ OutboundSendSettles(i)

SpecGateway == InitGateway /\ [][NextGateway]_vars

(***************************************************************************)
(* Specification SpecSplit: chunkMessage run one loop iteration at a time, *)
(* on every text up to MaxSplitLen with every maxLength from 1 to          *)
(* MaxChunkLen.  Here ch holds the call: its arguments, the chunks of      *)
(* splitAtSentences still to visit (todo), remaining of forceSplit and the *)
(* chunks collected.  SpecSplitFair adds that the call keeps running.      *)
(***************************************************************************)
SplitIdle ==
    [text |-> <<>>, maxLength |-> 1, pc |-> "idle", todo |-> <<>>,
     remaining |-> <<>>, chunks |-> <<>>]

InitSplit ==
    /\ ch = SplitIdle
    /\ hs = HandshakeIdle
    /\ wh = WebhookIdle
    /\ now = NOW
    /\ eng = EngineIdle
    /\ vin = VerifyNone
    /\ vout = VerifyIdle
    /\ cmp = CompareIdle
    /\ cb = [i \in 1..MaxCallbacks |-> CallbackIdle]
    /\ dedup = {}

\* chunkMessage is called with a text and a maxLength and runs up to its
\* for loop.
ChunkMessageStarts ==
    /\ ch.pc = "idle"
    /\ \E text \in TextsUpTo(MaxSplitLen), maxLength \in 1..MaxChunkLen :
           ch' = IF Len(text) <= maxLength
                 THEN [ch EXCEPT !.text = text, !.maxLength = maxLength,
                                 !.pc = "done", !.chunks = <<text>>]
                 ELSE [ch EXCEPT !.text = text, !.maxLength = maxLength,
                                 !.pc = "each",
                                 !.todo = splitAtSentences(text, maxLength)]
    /\ UNCHANGED <<vin, vout, cmp, cb, dedup, wh, now, eng, hs>>

\* One iteration of the for loop: the chunk is kept, or forceSplit is
\* called on it.
ChunkMessageIterates ==
    /\ ch.pc = "each"
    /\ ch.todo # <<>>
    /\ ch' = IF Len(Head(ch.todo)) <= ch.maxLength
             THEN [ch EXCEPT !.todo = Tail(@), !.chunks = Append(@, Head(ch.todo))]
             ELSE [ch EXCEPT !.todo = Tail(@), !.remaining = Head(ch.todo),
                             !.pc = "split"]
    /\ UNCHANGED <<vin, vout, cmp, cb, dedup, wh, now, eng, hs>>

\* One iteration of the while loop of forceSplit.
ForceSplitIterates ==
    /\ ch.pc = "split"
    /\ Len(ch.remaining) > ch.maxLength
    /\ LET splitPoint == forceSplitPoint(ch.remaining, ch.maxLength)
           chunk == Trim(SubSeq(ch.remaining, 1, splitPoint))
       IN  ch' = [ch EXCEPT
               !.chunks = IF chunk # <<>> THEN Append(@, chunk) ELSE @,
               !.remaining = Trim(SubSeq(ch.remaining, splitPoint + 1,
                                         Len(ch.remaining)))]
    /\ UNCHANGED <<vin, vout, cmp, cb, dedup, wh, now, eng, hs>>

\* forceSplit leaves its loop and returns.
ForceSplitReturns ==
    /\ ch.pc = "split"
    /\ Len(ch.remaining) <= ch.maxLength
    /\ ch' = [ch EXCEPT
              !.chunks = IF ch.remaining # <<>> THEN Append(@, ch.remaining) ELSE @,
              !.remaining = <<>>,
              !.pc = "each"]
    /\ UNCHANGED <<vin, vout, cmp, cb, dedup, wh, now, eng, hs>>

\* chunkMessage returns finalChunks.
ChunkMessageReturns ==
    /\ ch.pc = "each"
    /\ ch.todo = <<>>
    /\ ch' = [ch EXCEPT !.pc = "done"]
    /\ UNCHANGED <<vin, vout, cmp, cb, dedup, wh, now, eng, hs>>

NextSplit ==
    \/ ChunkMessageStarts
    \/ ChunkMessageIterates
    \/ ForceSplitIterates
    \/ ForceSplitReturns
    \/ ChunkMessageReturns

SpecSplit == InitSplit /\ [][NextSplit]_vars

\* The steps of a call that has started: the call runs on one thread with
\* nothing to wait for, so a step that can be taken is taken.
ChunkMessageRuns ==
    \/ ChunkMessageIterates
    \/ ForceSplitIterates
    \/ ForceSplitReturns
    \/ ChunkMessageReturns

SpecSplitFair == SpecSplit /\ WF_vars(ChunkMessageRuns)

(***************************************************************************)
(* The claims about the callback routes, under SpecCallback.               *)
(***************************************************************************)
\* Request i is a completion callback with the configured token and a
\* body that satisfies the schema.
AcceptedCompletion(i) ==
    /\ cb[i].pc # "idle"
    /\ cb[i].route = "completion"
    /\ cb[i].token = ENGINE_API_KEY
    /\ validateCompletionCallback(cb[i].body)

\* Request i is a callback with the configured token whose body is JSON
\* that violates the CompletionCallback schema.
RejectableCompletion(i) ==
    /\ cb[i].pc # "idle"
    /\ cb[i].route = "completion"
    /\ cb[i].token = ENGINE_API_KEY
    /\ cb[i].body.kind # "malformed"
    /\ ~validateCompletionCallback(cb[i].body)

\* C1: among the authenticated, schema-valid completion callbacks that
\* carry one messageId, overlapping or not, at most one performs outbound
\* sends.
C1_AtMostOneDelivery ==
    \A i, j \in CallbackSlots :
        (/\ i # j
         /\ AcceptedCompletion(i)
         /\ AcceptedCompletion(j)
         /\ cb[i].body.f.message_id = cb[j].body.f.message_id)
            => ~(cb[i].sent # <<>> /\ cb[j].sent # <<>>)

\* C2: when the same schema-valid completion callback is submitted twice,
\* the second after the first has been fully handled, the first answer is
\* 200 without the duplicate marker, the second is 200 with it, and only
\* the first call invokes the outbound client.
C2_SecondIsDeduplicated ==
    (/\ AcceptedCompletion(1)
     /\ AcceptedCompletion(2)
     /\ cb[2].quiet
     /\ cb[2].body = cb[1].body
     /\ cb[2].pc = "done")
        => /\ cb[1].status = 200
           /\ ~cb[1].deduplicated
           /\ cb[2].status = 200
           /\ cb[2].deduplicated
           /\ cb[2].sent = <<>>

\* C3: a messageId is Processed exactly from the moment the delivery
\* attempt of a completion callback that carries it has finished: it is
\* not recorded before or during the sends, and it is recorded after them.
C3_ProcessedAfterDelivery ==
    /\ \A m \in dedup :
           \E i \in CallbackSlots :
               /\ AcceptedCompletion(i)
               /\ cb[i].body.f.message_id.s = m
               /\ cb[i].pc = "done"
    /\ \A i \in CallbackSlots :
           (AcceptedCompletion(i) /\ cb[i].pc = "done")
               => cb[i].body.f.message_id.s \in dedup

\* C4: an authenticated completion callback whose body violates the schema
\* is answered 400, sends nothing and creates no dedup record.
C4_InvalidIsRejected ==
    \A i \in CallbackSlots :
        RejectableCompletion(i)
            => /\ cb[i].status = 400
               /\ cb[i].todo = <<>>
               /\ cb[i].sent = <<>>
               /\ dedup = {}

\* C5: a request to either callback route whose token is absent or is not
\* the configured credential is answered 401 whatever its body is, starts
\* no background task, sends nothing and leaves the dedup record unchanged.
C5_WrongTokenIs401 ==
    \A i \in CallbackSlots :
        (cb[i].pc # "idle" /\ cb[i].token # ENGINE_API_KEY)
            => /\ cb[i].status = 401
               /\ cb[i].pc = "done"
               /\ cb[i].todo = <<>>
               /\ cb[i].sent = <<>>
               /\ ~cb[i].caught
               /\ dedup = {}

\* A completion callback without a token and a progress callback with a
\* wrong one, both with bodies that would be delivered, were answered 401.
C5_Witness ==
    \E i, j \in CallbackSlots :
        /\ cb[i].route = "completion"
        /\ cb[i].token = Null
        /\ validateCompletionCallback(cb[i].body)
        /\ cb[i].status = 401
        /\ cb[j].route = "progress"
        /\ cb[j].token = WRONG_TOKEN
        /\ validateProgressCallback(cb[j].body)
        /\ cb[j].status = 401

(***************************************************************************)
(* The claim about the inbound webhook route, under SpecWebhook.           *)
(***************************************************************************)
SignatureValid(r) ==
    verifyFacebookSignature(r.body, r.sig256, r.sig1, META_APP_SECRET)

\* The webhook was answered with status and, unless that is 200, nothing
\* was processed, dispatched or sent.
AnsweredWith(status) ==
    /\ wh.status = status
    /\ (status # 200 =>
           /\ wh.pc = "done"
           /\ wh.n = 0
           /\ wh.events = <<>>
           /\ ~wh.caught)

\* C6 as stated: the answer is 401 when the signature is invalid or the
\* User-Agent differs from the configured value, otherwise 400 when the
\* body is not JSON, otherwise 200; only a 200 request is processed.
C6_AsStated ==
    wh.pc # "idle" =>
        AnsweredWith(IF ~SignatureValid(wh.req) \/ wh.req.userAgent # Str(FACEBOOK_USER_AGENT)
                     THEN 401
                     ELSE IF WebhookPayloads[wh.req.body].kind = "malformed"
                     THEN 400
                     ELSE 200)

\* C6 (amended): the answer is 401 when the signature is invalid or the
\* User-Agent is absent or differs, after its surrounding whitespace is
\* trimmed, from the configured value; otherwise 400 when the body is not
\* JSON, otherwise 200; only a 200 request is processed.
C6_WebhookResponses ==
    wh.pc # "idle" =>
        AnsweredWith(IF \/ ~SignatureValid(wh.req)
                        \/ wh.req.userAgent.null
                        \/ Trim(wh.req.userAgent.s) # FACEBOOK_USER_AGENT
                     THEN 401
                     ELSE IF WebhookPayloads[wh.req.body].kind = "malformed"
                     THEN 400
                     ELSE 200)

\* A correctly signed request that carries a message was answered 401 for
\* its User-Agent.
C6_Witness ==
    /\ wh.pc = "done"
    /\ SignatureValid(wh.req)
    /\ wh.req.userAgent = Str(OTHER_USER_AGENT)
    /\ MessagesOfEntries(WebhookPayloads[wh.req.body].entry) # <<>>
    /\ wh.status = 401

(***************************************************************************)
(* The claims about signature verification, under SpecVerify.              *)
(***************************************************************************)
\* C7: verifyFacebookSignature decides by header presence: with a SHA-256
\* header the result is whether that header is the SHA-256 signature of
\* the body, whatever the SHA-1 header is; with only a SHA-1 header it is
\* whether that header is the SHA-1 signature; with neither (null or
\* empty) it is false.
C7_DecidesByPresence ==
    vout.fbDone =>
        vout.fb = (IF ~vin.sig256.null /\ vin.sig256.s # <<>>
                   THEN Trim(vin.sig256.s) = Sign256(vin.body, vin.secret)
                   ELSE IF ~vin.sig1.null /\ vin.sig1.s # <<>>
                   THEN Trim(vin.sig1.s) = Sign1(vin.body, vin.secret)
                   ELSE FALSE)

\* The SHA-256 header is signed with another secret, the SHA-1 header is
\* right, and the result is false.
C7_Witness ==
    /\ vout.fbDone
    /\ \E s \in Secrets \ {vin.secret} :
           vin.sig256 = Str(Sign256(vin.body, s))
    /\ vin.sig1 = Str(Sign1(vin.body, vin.secret))
    /\ ~vout.fb

\* C8: verifySignature accepts the header made by signing the body with
\* the secret, rejects the header made by signing the same body with any
\* other secret, and rejects the right digest under the other algorithm's
\* prefix.
C8_SignVerifyRoundTrip ==
    vout.sigDone =>
        /\ (vin.sig256 = Str(Sign256(vin.body, vin.secret)) => vout.sig)
        /\ \A s \in Secrets \ {vin.secret} :
               vin.sig256 = Str(Sign256(vin.body, s)) => ~vout.sig
        /\ (vin.sig256 = Str(WrongPrefix256(vin.body, vin.secret)) => ~vout.sig)

\* The header signed with another secret was rejected.
C8_Witness ==
    /\ vout.sigDone
    /\ \E s \in Secrets \ {vin.secret} :
           vin.sig256 = Str(Sign256(vin.body, s))
    /\ ~vout.sig

(***************************************************************************)
(* The claim about constantTimeCompare, under SpecCompare.                 *)
(***************************************************************************)
\* C9: constantTimeCompare returns true exactly when its strings are
\* equal; on strings of equal length it makes one comparison step per
\* position wherever they differ, and it makes none when the lengths
\* differ.
C9_ConstantTime ==
    cmp.done =>
        /\ cmp.result = (cmp.a = cmp.b)
        /\ (Len(cmp.a) = Len(cmp.b) => cmp.steps = Len(cmp.a))
        /\ (Len(cmp.a) # Len(cmp.b) => cmp.steps = 0)

\* Two strings of the greatest length that differ in their first
\* character were compared at every position.
C9_Witness ==
    /\ cmp.done
    /\ Len(cmp.a) = MaxStrLen
    /\ Len(cmp.b) = MaxStrLen
    /\ cmp.a[1] # cmp.b[1]
    /\ cmp.steps = MaxStrLen
    /\ ~cmp.result

(***************************************************************************)
(* The claim about the retries of a dispatch, under SpecEngine.            *)
(***************************************************************************)
\* C10: a dispatch makes at most 6 backend calls, and when every call is
\* answered 429 it ends after the 6th call with the result null.
C10_RetriesUpToSixCalls ==
    (eng.client # "none" /\ eng.pc = "done") =>
        /\ eng.calls <= 6
        /\ (\A k \in 1..Len(eng.responses) :
                ~eng.responses[k].rejected
                    /\ eng.responses[k].status = HTTP_TOO_MANY_REQUESTS)
               => (eng.calls = 6 /\ eng.result = "null")

(***************************************************************************)
(* The claims about the dispatch client with retries (sendTextMessage      *)
(* over fetchWithRetry) and about network failures, under SpecEngine.      *)
(***************************************************************************)
Busy(response) ==
    ~response.rejected /\ response.status = HTTP_TOO_MANY_REQUESTS

\* The response a finished call of the client ended with.
LastResponse == eng.responses[Len(eng.responses)]

BackoffMs == <<2000, 3000, 4500, 6750, 10125>>

\* The Retry-After headers of the model, in seconds.
HeaderSeconds(h) == IF h = Str(<<49>>) THEN 1 ELSE 30

\* C12: the wait before retry k (k = 0..4) is the Retry-After value of the
\* 429 response in seconds when it has the header, and otherwise 2000,
\* 3000, 4500, 6750, 10125 ms; the next call is issued only when that wait
\* has elapsed.
C12_WaitBeforeRetry ==
    eng.client = "sendTextMessage" =>
        /\ Len(eng.delays) <= 5
        /\ \A k \in 1..Len(eng.delays) :
               eng.delays[k] =
                   IF eng.responses[k].retryAfter.null
                   THEN BackoffMs[k]
                   ELSE 1000 * HeaderSeconds(eng.responses[k].retryAfter)
        /\ Len(eng.issued) = eng.calls
        /\ eng.calls = Len(eng.delays) + (IF eng.pc = "sleep" THEN 0 ELSE 1)
        /\ \A k \in 1..(Len(eng.issued) - 1) :
               eng.issued[k + 1] >= eng.issued[k] + eng.delays[k]

\* Five retries without the header, the sixth call issued after their
\* waits.
C12_Witness ==
    /\ eng.client = "sendTextMessage"
    /\ eng.delays = BackoffMs
    /\ eng.calls = 6
    /\ eng.issued[6] = 2000 + 3000 + 4500 + 6750 + 10125

\* C13: when a backend call rejects, on the first call or on a retry, the
\* client returns null, does not throw, and makes no further call.
C13_RejectionIsFailure ==
    \A k \in 1..Len(eng.responses) :
        eng.responses[k].rejected
            => /\ k = Len(eng.responses)
               /\ eng.pc = "done"
               /\ eng.calls = k
               /\ eng.result = "null"

\* The first retry of sendTextMessage rejected.
C13_Witness ==
    /\ eng.client = "sendTextMessage"
    /\ Len(eng.responses) = 2
    /\ eng.responses[2].rejected
    /\ eng.result = "null"

(***************************************************************************)
(* The claims about admission, under SpecWebhook.                          *)
(***************************************************************************)
\* The messages of the webhook's payload, in the order of the payload; the
\* background task has taken up the first wh.n of them.
PayloadMessages == MessagesOfEntries(WebhookPayloads[wh.req.body].entry)

\* The calls (Meta API, dispatch client) made for the k-th message.
EventsOf(k) == SelectSeq(wh.events, LAMBDA e : e.n = k)
DispatchesOf(k) == SelectSeq(wh.events, LAMBDA e : e.n = k /\ e.kind = "engine")

\* The task is through with the k-th message.
Finished(k) == k < wh.n \/ wh.pc \in {"next", "done"}

RawType(k) == PayloadMessages[k].raw.type
SupportedRawType(k) == RawType(k) \in {"text", "audio"}

\* The k-th message has a timestamp, and at its validation that was more
\* than the cutoff ago.
Stale(k) ==
    LET ts == PayloadMessages[k].raw.timestamp
    IN  /\ ts # <<>>
        /\ wh.clocks[k] - ParseDigits(ts, 0) > CutoffSeconds

\* contacts[0].wa_id of the message's change, else the sender.
UserIdOf(k) ==
    IF PayloadMessages[k].contacts # <<>> THEN PayloadMessages[k].contacts[1]
    ELSE PayloadMessages[k].raw.from

\* C14: the dispatch client is invoked at most once for a message of the
\* payload, and only for a message that admission accepted: never for an
\* unsupported type, a stale message or audio.
C14_DispatchOnlyAccepted ==
    \A k \in 1..wh.n :
        /\ Len(DispatchesOf(k)) <= 1
        /\ DispatchesOf(k) # <<>> => (RawType(k) = "text" /\ ~Stale(k))

\* Of an image, a stale text and a text aged exactly the cutoff, only the
\* last was dispatched.
C14_Witness ==
    /\ wh.req.body = 6
    /\ wh.pc = "done"
    /\ wh.n = 3
    /\ DispatchesOf(1) = <<>>
    /\ DispatchesOf(2) = <<>>
    /\ Len(DispatchesOf(3)) = 1

\* C15: a message whose type is not text or audio is dropped silently: no
\* notice, no typing indicator and no dispatch is made for it.
C15_UnsupportedIsSilent ==
    \A k \in 1..wh.n :
        ~SupportedRawType(k) => EventsOf(k) = <<>>

\* A document, a sticker, a location, contacts, a button and a reaction
\* were passed over, and the text message after them was taken up.
C15_Witness ==
    /\ wh.req.body = 8
    /\ wh.n = 8
    /\ wh.pc = "typing"
    /\ wh.events = <<>>

\* C16: a text or audio message is rejected as stale exactly when
\* now - timestamp > cutoff at its validation; a stale message causes no
\* dispatch and no outbound message, audio included, and a message that
\* is not stale is acted on.
C16_StaleExactlyBeyondCutoff ==
    \A k \in 1..wh.n :
        (SupportedRawType(k) /\ PayloadMessages[k].raw.timestamp # <<>>)
            => /\ Stale(k) => EventsOf(k) = <<>>
               /\ (~Stale(k) /\ Finished(k)) => EventsOf(k) # <<>>

\* A stale audio message caused nothing and the text aged exactly the
\* cutoff after it was dispatched.
C16_Witness ==
    /\ wh.req.body = 8
    /\ wh.n >= 8
    /\ RawType(7) = "audio"
    /\ Stale(7)
    /\ EventsOf(7) = <<>>
    /\ wh.clocks[8] - ParseDigits(PayloadMessages[8].raw.timestamp, 0) = CutoffSeconds
    /\ DispatchesOf(8) # <<>>

\* C17: for an audio message that is not stale exactly one call is made:
\* the voice notice, sent to the message's user id; no typing indicator
\* and no dispatch.
C17_AudioGetsOneNotice ==
    \A k \in 1..wh.n :
        (RawType(k) = "audio" /\ ~Stale(k))
            => /\ Len(EventsOf(k)) = (IF Finished(k) THEN 1 ELSE 0)
               /\ \A i \in 1..Len(EventsOf(k)) :
                      /\ EventsOf(k)[i].kind = "text"
                      /\ EventsOf(k)[i].text = VOICE_NOTICE
                      /\ EventsOf(k)[i].to = UserIdOf(k)

\* The notice for a fresh audio message went to the contact of its change
\* and the task went on to the next message.
C17_Witness ==
    /\ wh.req.body = 8
    /\ wh.n = 9
    /\ wh.pc = "done"
    /\ ~wh.caught
    /\ ~Stale(9)
    /\ Len(EventsOf(9)) = 1
    /\ EventsOf(9)[1].to = Str(W2)
    /\ EventsOf(9)[1].text = VOICE_NOTICE

(***************************************************************************)
(* The claims about chunkMessage, under SpecChunk.                         *)
(***************************************************************************)
\* s without its whitespace characters.
WithoutWhiteSpace(s) == SelectSeq(s, LAMBDA c : c \notin WhiteSpace)

\* The chunks joined in order.
RECURSIVE Joined(_)
Joined(chunks) ==
    IF chunks = <<>> THEN <<>> ELSE Head(chunks) \o Joined(Tail(chunks))

\* C18: for every text and every maxLength >= 1 each chunk that
\* chunkMessage returns has length <= maxLength.
C18_ChunksWithinLimit ==
    ch.done =>
        \A i \in 1..Len(ch.chunks) : Len(ch.chunks[i]) <= ch.maxLength

\* A text of the greatest length without whitespace or delimiter was cut
\* into chunks of maxLength characters.
C18_Witness ==
    /\ ch.done
    /\ Len(ch.text) = MaxTextLen
    /\ \A k \in 1..Len(ch.text) : ch.text[k] = 97
    /\ ch.maxLength = 2
    /\ Len(ch.chunks) >= 2
    /\ Len(ch.chunks[1]) = 2

\* C19: the chunks in order hold the characters of the text, none lost,
\* repeated or moved, whitespace aside.
C19_ContentPreserved ==
    ch.done =>
        WithoutWhiteSpace(Joined(ch.chunks)) = WithoutWhiteSpace(ch.text)

\* A text with a delimiter and a space, longer than maxLength, was split
\* into several chunks.
C19_Witness ==
    /\ ch.done
    /\ Len(ch.text) > ch.maxLength
    /\ \E k \in 1..Len(ch.text) : ch.text[k] = 46
    /\ \E k \in 1..Len(ch.text) : ch.text[k] = 32
    /\ Len(ch.chunks) >= 2
    /\ Joined(ch.chunks) # ch.text

\* C20: a text of length <= maxLength, the length maxLength included, is
\* returned as the only chunk, unchanged.
C20_ShortTextIsOneChunk ==
    (ch.done /\ Len(ch.text) <= ch.maxLength) => ch.chunks = <<ch.text>>

\* A text of exactly maxLength characters that begins with a space was
\* returned untrimmed.
C20_Witness ==
    /\ ch.done
    /\ Len(ch.text) = ch.maxLength
    /\ ch.text[1] = 32
    /\ ch.chunks = <<ch.text>>

\* s holds nothing but whitespace characters (the empty text included).
WhiteSpaceOnly(s) == \A k \in 1..Len(s) : s[k] \in WhiteSpace

\* C21 as stated: for an empty or whitespace-only text and any maxLength
\* chunkMessage returns the text as a single unchanged element, never the
\* empty sequence.
C21_AsStated ==
    (ch.done /\ WhiteSpaceOnly(ch.text)) => ch.chunks = <<ch.text>>

\* C21: an empty or whitespace-only text no longer than maxLength is
\* returned as a single unchanged element; a whitespace-only text longer
\* than maxLength is returned as the empty sequence.
C21_WhiteSpaceOnlyText ==
    (ch.done /\ WhiteSpaceOnly(ch.text)) =>
        ch.chunks = IF Len(ch.text) <= ch.maxLength THEN <<ch.text>> ELSE <<>>

\* A text of spaces and line feeds longer than maxLength was chunked.
C21_Witness ==
    /\ ch.done
    /\ WhiteSpaceOnly(ch.text)
    /\ Len(ch.text) > ch.maxLength
    /\ \E k \in 1..Len(ch.text) : ch.text[k] = 10
    /\ ch.chunks = <<>>

\* The chunks of the responses, responses[1]'s chunks in chunk order
\* first, then responses[2]'s, and so on.
RECURSIVE ChunksInOrder(_)
ChunksInOrder(responses) ==
    IF responses = <<>> THEN <<>>
    ELSE chunkMessage(Head(responses).s, ChunkSize)
             \o ChunksInOrder(Tail(responses))

TextsOf(sends) == [k \in 1..Len(sends) |-> sends[k].text.s]

\* Request i is an accepted completion callback with status completed.
AcceptedCompleted(i) ==
    /\ AcceptedCompletion(i)
    /\ cb[i].body.f.status = JStr(COMPLETED)

\* C22: the sends of a completed callback are made one at a time in
\* generation order: the sends made so far are the first chunks of
\* ChunksInOrder(responses), every one to the callback's userId, every one
\* but the last has returned, and the sends still to make are the chunks
\* that follow.
C22_SendsInGenerationOrder ==
    \A i \in CallbackSlots :
        AcceptedCompleted(i) =>
            LET expected == ChunksInOrder(cb[i].body.f.responses.a)
                made == Len(cb[i].sent)
            IN  /\ made <= Len(expected)
                /\ TextsOf(cb[i].sent) = SubSeq(expected, 1, made)
                /\ \A k \in 1..made :
                       /\ cb[i].sent[k].to = cb[i].body.f.user_id.s
                       /\ k < made => cb[i].sent[k].result # "throw"
                /\ (made > 0 /\ cb[i].sent[made].result = "throw")
                       => cb[i].todo = <<>>
                /\ (made = 0 \/ cb[i].sent[made].result # "throw")
                       => TextsOf(cb[i].todo)
                              = SubSeq(expected, made + 1, Len(expected))

\* A callback with two responses, the first of which takes two chunks, has
\* made its three sends.
C22_Witness ==
    \E i \in CallbackSlots :
        /\ AcceptedCompleted(i)
        /\ Len(cb[i].body.f.responses.a) = 2
        /\ Len(chunkMessage(cb[i].body.f.responses.a[1].s, ChunkSize)) = 2
        /\ cb[i].pc = "done"
        /\ Len(cb[i].sent) = 3
        /\ cb[i].sent[1].text # cb[i].sent[2].text

\* The id and type of the messages of each body of the model as the body
\* lists them, entry by entry, change by change (the changes of another
\* field than messages left out).
ListedMessages ==
    << <<>>, <<>>, <<>>,
       << <<ID1, "text">> >>,
       << <<ID1, "audio">>, <<ID2, "text">> >>,
       << <<ID1, "image">>, <<ID2, "text">>, <<ID3, "text">> >>,
       << <<ID1, "audio">>, <<ID2, "text">>, <<ID3, "interactive">> >>,
       << <<ID1, "document">>, <<ID1, "sticker">>, <<ID1, "location">>,
          <<ID1, "contacts">>, <<ID1, "button">>, <<ID1, "reaction">>,
          <<ID2, "audio">>, <<ID3, "text">>, <<ID2, "audio">> >>,
       << <<ID1, "text">>, <<ID2, "audio">> >>,
       << <<ID3, "text">> >>,
       << <<ID1, "interactive">>, <<ID2, "interactive">>, <<ID3, "interactive">>,
          <<ID1, "button">>, <<ID2, "image">>, <<ID3, "audio">>,
          <<ID1, "Text">> >> >>

\* C23: the messages of one payload are processed in the order the payload
\* lists them, one at a time: the message being processed is the wh.n-th
\* listed one, the messages still to process are those listed after it,
\* every call made so far belongs to that message or an earlier one, in
\* that order, and the task ends normally only after the last message.
C23_PayloadOrder ==
    (wh.pc # "idle" /\ wh.status = 200) =>
        LET listed == ListedMessages[wh.req.body]
        IN  /\ wh.n <= Len(listed)
            /\ wh.n > 0 =>
                   /\ wh.msg.messageId = listed[wh.n][1]
                   /\ wh.msg.messageType = parseMessageType(listed[wh.n][2])
            /\ wh.pc # "done" =>
                   [k \in 1..Len(wh.queue) |->
                       <<wh.queue[k].raw.id, wh.queue[k].raw.type>>]
                       = SubSeq(listed, wh.n + 1, Len(listed))
            /\ \A k \in 1..Len(wh.events) :
                   /\ wh.events[k].n <= wh.n
                   /\ k > 1 => wh.events[k - 1].n <= wh.events[k].n
            /\ (wh.pc = "done" /\ ~wh.caught) => wh.n = Len(listed)

\* The payload with two entries, the first with a change of another field,
\* has been processed to its third message, for which calls were made.
C23_Witness ==
    /\ wh.req.body = 6
    /\ wh.pc = "done"
    /\ ~wh.caught
    /\ wh.n = 3
    /\ wh.events # <<>>
    /\ wh.events[Len(wh.events)].n = 3

\* The request passes the signature check and the User-Agent check of the
\* route and its body is JSON.
AuthenticWellFormed(r) ==
    /\ SignatureValid(r)
    /\ ~r.userAgent.null
    /\ Trim(r.userAgent.s) = FACEBOOK_USER_AGENT
    /\ WebhookPayloads[r.body].kind # "malformed"

\* C24: an authenticated, well-formed webhook request is answered 200
\* whatever becomes of its messages: rejected at admission, dispatch
\* failed, an outbound call failed or thrown, the task ended in its catch.
C24_AlwaysAcknowledged ==
    (wh.pc # "idle" /\ AuthenticWellFormed(wh.req)) => wh.status = 200

\* The task of an acknowledged request has ended in its catch after the
\* dispatch failed and the apology threw.
C24_Witness ==
    /\ wh.pc = "done"
    /\ AuthenticWellFormed(wh.req)
    /\ wh.status = 200
    /\ wh.caught
    /\ \E k \in 1..Len(wh.events) :
           wh.events[k].kind = "engine" /\ wh.events[k].result = "null"
    /\ wh.events[Len(wh.events)].result = "throw"

\* The dispatch of the k-th message failed.
DispatchFailed(k) ==
    \E i \in 1..Len(DispatchesOf(k)) : DispatchesOf(k)[i].result = "null"

ApologiesOf(k) ==
    SelectSeq(wh.events, LAMBDA e : e.n = k /\ e.kind = "text"
                                        /\ e.text = ERROR_NOTICE)

\* C25: when the dispatch of a message fails, the dispatch is not
\* attempted again for it, exactly one apology goes to its user, and
\* processing continues with the next message of the payload.
C25_ApologyThenNextMessage ==
    \A k \in 1..wh.n :
        DispatchFailed(k)
            => /\ Len(DispatchesOf(k)) = 1
               /\ Len(ApologiesOf(k)) = (IF Finished(k) THEN 1 ELSE 0)
               /\ \A i \in 1..Len(ApologiesOf(k)) :
                      ApologiesOf(k)[i].to = UserIdOf(k)
               /\ (Finished(k) /\ k < Len(PayloadMessages))
                      => (wh.n > k \/ wh.pc = "next")

(***************************************************************************)
(* Further claims about the callback routes, under SpecCallback.           *)
(***************************************************************************)
\* C26: an accepted completion callback with status error makes exactly
\* one send, of the fixed notice to the callback's userId, whatever its
\* error field and its responses are.
C26_ErrorGetsFixedNotice ==
    \A i \in CallbackSlots :
        (AcceptedCompletion(i) /\ cb[i].body.f.status = JStr(ERROR))
            => /\ Len(cb[i].sent) + Len(cb[i].todo) = 1
               /\ cb[i].pc = "done" =>
                      /\ Len(cb[i].sent) = 1
                      /\ cb[i].sent[1].to = cb[i].body.f.user_id.s
                      /\ cb[i].sent[1].text = JStr(ERROR_NOTICE)
               /\ cb[i].pc # "done" =>
                      cb[i].todo = <<Send(cb[i].body.f.user_id.s,
                                          JStr(ERROR_NOTICE))>>

\* An error callback that carries an error text and a list of responses
\* has had its one notice sent.
C26_Witness ==
    \E i \in CallbackSlots :
        /\ AcceptedCompletion(i)
        /\ cb[i].body.f.status = JStr(ERROR)
        /\ cb[i].body.f.error = JStr(BOOM)
        /\ cb[i].body.f.responses # JUndef
        /\ cb[i].pc = "done"
        /\ Len(cb[i].sent) = 1
        /\ cb[i].sent[1].result = "ok"

\* Request i is a progress callback with the configured token whose body
\* is JSON.
AuthenticatedProgress(i) ==
    /\ cb[i].pc # "idle"
    /\ cb[i].route = "progress"
    /\ cb[i].token = ENGINE_API_KEY
    /\ cb[i].body.kind # "malformed"

\* C27: an authenticated progress callback whose user_id or message_key is
\* missing or not a non-empty string, or whose text is missing or not a
\* string, is answered 400 and sends nothing; any other is answered 200
\* and its text is sent to its userId.
C27_ProgressValidated ==
    \A i \in CallbackSlots :
        AuthenticatedProgress(i) =>
            IF validateProgressCallback(cb[i].body)
            THEN /\ cb[i].status = 200
                 /\ cb[i].pc = "done" =>
                        /\ Len(cb[i].sent) = 1
                        /\ cb[i].sent[1].to = cb[i].body.f.user_id.s
                        /\ cb[i].sent[1].text = cb[i].body.f.text
            ELSE /\ cb[i].status = 400
                 /\ cb[i].todo = <<>>
                 /\ cb[i].sent = <<>>

\* Request i is an authenticated progress callback with a valid body.
ValidProgress(i) == AuthenticatedProgress(i) /\ validateProgressCallback(cb[i].body)

\* C28: the progress path is stateless: no dedup record comes of it, its
\* answer never carries the duplicate marker, and every valid progress
\* callback makes its own send, whatever callbacks came before it, the
\* same progress callback and a completion whose message_id is its
\* message_key included.
C28_ProgressStateless ==
    /\ (\E i \in CallbackSlots : cb[i].route = "progress") => dedup = {}
    /\ \A i \in CallbackSlots :
           (cb[i].pc # "idle" /\ cb[i].route = "progress")
               => ~cb[i].deduplicated
    /\ \A i \in CallbackSlots :
           ValidProgress(i) =>
               /\ Len(cb[i].sent) + Len(cb[i].todo) = 1
               /\ cb[i].pc = "done" => Len(cb[i].sent) = 1

\* The same valid progress callback arrived twice, the second after the
\* first was handled, and each was sent.
C28_Witness ==
    /\ ValidProgress(1)
    /\ ValidProgress(2)
    /\ cb[2].body = cb[1].body
    /\ cb[2].quiet
    /\ cb[1].sent # <<>>
    /\ cb[2].sent # <<>>
    /\ cb[2].sent[1].text = cb[2].body.f.text

(***************************************************************************)
(* The claim about the verification handshake, under SpecHandshake.        *)
(***************************************************************************)
\* C29: the GET is answered 200 with the challenge as body exactly when
\* hub.mode is 'subscribe' and hub.verify_token is the configured token;
\* any other request is answered 403.
C29_HandshakeResponse ==
    hs.pc = "done" =>
        IF /\ ~hs.mode.null
           /\ hs.mode.s = SUBSCRIBE
           /\ ~hs.token.null
           /\ hs.token.s = META_VERIFY_TOKEN
        THEN /\ hs.status = 200
             /\ hs.body = (IF hs.challenge.null THEN <<>> ELSE hs.challenge.s)
        ELSE hs.status = 403

\* A subscribe request with the configured token was answered with its
\* challenge.
C29_Witness ==
    /\ hs.pc = "done"
    /\ hs.mode = Str(SUBSCRIBE)
    /\ hs.token = Str(META_VERIFY_TOKEN)
    /\ hs.challenge = Str(<<99, 49>>)
    /\ hs.status = 200
    /\ hs.body = <<99, 49>>

C31_UserIdNeverEmpty ==
    /\ wh.n > 0 => (~wh.msg.userId.null /\ wh.msg.userId.s # <<>>)
    /\ \A k \in 1..Len(wh.events) :
           wh.events[k].kind \in {"text", "engine"}
               => (~wh.events[k].to.null /\ wh.events[k].to.s # <<>>)

\* C32: the dispatch client is never invoked with the empty text.
C32_NoEmptyDispatch ==
    \A k \in 1..Len(wh.events) :
        wh.events[k].kind = "engine" => wh.events[k].text # <<>>

\* The text the raw message carries for its type, or the empty text.
TextForType(raw) ==
    IF raw.type = "text"
    THEN (IF raw.text_body.null THEN <<>> ELSE raw.text_body.s)
    ELSE IF raw.type = "interactive"
    THEN (IF ~raw.button_reply_title.null THEN raw.button_reply_title.s
          ELSE IF ~raw.list_reply_title.null THEN raw.list_reply_title.s
          ELSE <<>>)
    ELSE IF raw.type = "button"
    THEN (IF raw.button_text.null THEN <<>> ELSE raw.button_text.s)
    ELSE <<>>

\* C33: the text of a parsed message is the body for text, the
\* button_reply title or else the list_reply title for interactive, the
\* button text for button, and empty for every other type and for a
\* missing field; a type outside the known ones is parsed as unknown.
C33_TextByType ==
    wh.n > 0 =>
        LET raw == PayloadMessages[wh.n].raw
        IN  /\ wh.msg.text = Str(TextForType(raw))
            /\ wh.msg.messageType
                   = (IF raw.type \in {"text", "audio", "image", "document",
                                       "sticker", "location", "contacts",
                                       "interactive", "button"}
                      THEN raw.type ELSE "unknown")

\* An interactive message with both titles was parsed: its text is the
\* title of the button reply.
C33_Witness ==
    /\ wh.n > 0
    /\ PayloadMessages[wh.n].raw.type = "interactive"
    /\ ~PayloadMessages[wh.n].raw.button_reply_title.null
    /\ ~PayloadMessages[wh.n].raw.list_reply_title.null
    /\ wh.msg.text = PayloadMessages[wh.n].raw.button_reply_title
    /\ wh.msg.text # PayloadMessages[wh.n].raw.list_reply_title

(***************************************************************************)
(* The claim about combineChunks, under SpecCombine.                       *)
(***************************************************************************)
WithoutLineFeeds(s) == SelectSeq(s, LAMBDA c : c # 10)

\* The call has returned.
CombineReturned == ch.pc = "done"

\* What the call returns: the chunks of the input in input order and
\* nothing else but separators; within maxLength when every input chunk
\* is; empty for the empty input.
CombineResult ==
    CombineReturned =>
        /\ WithoutLineFeeds(Joined(ch.combined)) = Joined(ch.chunks)
        /\ \A k \in 1..Len(ch.combined) : ch.combined[k] # <<>>
        /\ (\A k \in 1..Len(ch.chunks) : Len(ch.chunks[k]) <= ch.maxLength)
               => \A k \in 1..Len(ch.combined) :
                      Len(ch.combined[k]) <= ch.maxLength
        /\ ch.chunks = <<>> => ch.combined = <<>>

\* An iteration with a non-empty current output appends the blank line
\* and the chunk to it exactly when current length + 2 + chunk length <=
\* maxLength, and otherwise closes it and starts the next with the chunk.
CombineIteration ==
    (ch.pc = "loop" /\ ch'.pc = "loop" /\ ch.current # <<>>) =>
        IF Len(ch.current) + 2 + Len(ch.chunks[ch.i]) <= ch.maxLength
        THEN /\ ch'.current = ch.current \o BLANK_LINE \o ch.chunks[ch.i]
             /\ ch'.combined = ch.combined
        ELSE /\ ch'.current = ch.chunks[ch.i]
             /\ ch'.combined = Append(ch.combined, ch.current)

\* C34: combineChunks merges consecutive chunks with a blank line, in
\* input order, merging a chunk into the current output exactly when
\* current length + 2 + its length <= maxLength; the outputs are within
\* maxLength when every input is, and the empty input gives the empty
\* output.
C34_CombineChunks == [](CombineResult) /\ [][CombineIteration]_vars

\* Three chunks were combined into two outputs, the first of them merged
\* from two chunks and exactly maxLength long.
C34_Witness ==
    /\ CombineReturned
    /\ Len(ch.chunks) = 3
    /\ Len(ch.combined) = 2
    /\ Len(ch.combined[1]) = ch.maxLength
    /\ ch.combined[1] = ch.chunks[1] \o BLANK_LINE \o ch.chunks[2]
    /\ ch.chunks[1] # <<>>
    /\ ch.chunks[2] # <<>>

(***************************************************************************)
(* The claim about exceptions in background tasks, under SpecGateway.      *)
(***************************************************************************)
\* The background task of callback request i, of the webhook request, has
\* thrown.
CallbackTaskThrew(i) ==
    \/ \E k \in 1..Len(cb[i].sent) : cb[i].sent[k].result = "throw"
    \/ cb[i].pc = "done" /\ cb[i].status = 200 /\ cb[i].throws
WebhookTaskThrew ==
    \/ \E k \in 1..Len(wh.events) : wh.events[k].result = "throw"
    \/ wh.status = 200 /\ WebhookPayloads[wh.req.body].kind = "noentry"

\* An exception of a background task has ended that task in its catch.
ThrownIsCaught ==
    /\ \A i \in CallbackSlots :
           CallbackTaskThrew(i) => (cb[i].pc = "done" /\ cb[i].caught)
    /\ WebhookTaskThrew => (wh.pc = "done" /\ wh.caught)

\* A response once given stays as it is, and the step in which a task
\* ends in its catch changes nothing of any other request.
ThrowStaysInItsTask ==
    /\ \A i \in CallbackSlots :
           /\ cb[i].pc # "idle" =>
                  /\ cb'[i].status = cb[i].status
                  /\ cb'[i].deduplicated = cb[i].deduplicated
           /\ (cb[i].pc = "background" /\ cb'[i].caught) =>
                  /\ wh' = wh
                  /\ \A j \in CallbackSlots \ {i} : cb'[j] = cb[j]
    /\ wh.pc # "idle" => wh'.status = wh.status
    /\ (wh.pc \notin {"idle", "done"} /\ wh'.caught) => cb' = cb

\* C35: an exception raised in the background processing of a webhook, a
\* completion callback or a progress callback is caught by that task: it
\* leaves the response already given as it is and changes nothing of the
\* handling of any other request.
C35_ExceptionsAreContained == [](ThrownIsCaught) /\ [][ThrowStaysInItsTask]_vars

\* The first callback's send threw and the webhook's task threw, both
\* answered 200, and a callback that was in delivery meanwhile has made
\* its send.
C35_Witness ==
    /\ cb[1].caught
    /\ cb[1].status = 200
    /\ cb[1].sent # <<>>
    /\ cb[1].sent[Len(cb[1].sent)].result = "throw"
    /\ wh.caught
    /\ wh.status = 200
    /\ wh.events # <<>>
    /\ ~cb[2].quiet
    /\ cb[2].pc = "done"
    /\ ~cb[2].caught
    /\ Len(cb[2].sent) = 1
    /\ cb[2].sent[1].result = "ok"

(***************************************************************************)
(* Further claims about chunkMessage, under SpecChunk.                     *)
(***************************************************************************)
\* s begins with a period, a semicolon or a blank line.
BeginsWithDelimiter(s) ==
    \/ s # <<>> /\ s[1] \in {46, 59}
    \/ Len(s) >= 2 /\ s[1] = 10 /\ s[2] = 10

\* The delimiter-bounded pieces of the text, as splitAtSentences packs
\* them.
PiecesOf(text) == reattachDelimiters(SplitOnDelimiters(text, <<>>))

\* C36: when chunkMessage splits a text longer than maxLength, no
\* delimiter-bounded piece and no returned chunk begins with a delimiter.
C36_NoLeadingDelimiter ==
    (ch.done /\ Len(ch.text) > ch.maxLength) =>
        /\ \A k \in 1..Len(PiecesOf(ch.text)) :
               ~BeginsWithDelimiter(PiecesOf(ch.text)[k])
        /\ \A k \in 1..Len(ch.chunks) : ~BeginsWithDelimiter(ch.chunks[k])

\* pieces[a..b] joined with single spaces.
RECURSIVE JoinWithSpace(_, _, _)
JoinWithSpace(pieces, a, b) ==
    IF a > b THEN <<>>
    ELSE IF a = b THEN pieces[a]
    ELSE pieces[a] \o SPACE \o JoinWithSpace(pieces, a + 1, b)

\* packed is a greedy packing of pieces: last[k] is the index of the last
\* piece of packed[k]; every piece is in exactly one chunk, in order, and
\* the first piece of a later chunk did not fit into the chunk before it.
GreedyPacking(pieces, packed, maxLength) ==
    \E last \in [1..Len(packed) -> 1..Len(pieces)] :
        /\ \A k \in 1..Len(packed) :
               LET first == IF k = 1 THEN 1 ELSE last[k - 1] + 1
               IN  /\ first <= last[k]
                   /\ packed[k] = JoinWithSpace(pieces, first, last[k])
        /\ Len(packed) > 0 => last[Len(packed)] = Len(pieces)
        /\ \A k \in 1..(Len(packed) - 1) :
               Len(packed[k]) + 1 + Len(pieces[last[k] + 1]) > maxLength

\* C37: the packing of the delimiter-bounded pieces is greedy and keeps
\* their order: each packed chunk is a run of consecutive pieces joined by
\* single spaces, the earlier of two consecutive chunks plus a space plus
\* the first piece of the later is longer than maxLength, and pieces that
\* fit together are one chunk.
C37_GreedyPacking ==
    (ch.done /\ Len(ch.text) > ch.maxLength) =>
        LET pieces == PiecesOf(ch.text)
            packed == splitAtSentences(ch.text, ch.maxLength)
        IN  /\ GreedyPacking(pieces, packed, ch.maxLength)
            /\ pieces = <<>> <=> packed = <<>>
            /\ (pieces # <<>>
                  /\ Len(JoinWithSpace(pieces, 1, Len(pieces))) <= ch.maxLength)
                   => packed = <<JoinWithSpace(pieces, 1, Len(pieces))>>

\* A text of three pieces was packed into two chunks, the first of two
\* pieces and exactly maxLength long.
C37_Witness ==
    /\ ch.done
    /\ Len(ch.text) > ch.maxLength
    /\ Len(PiecesOf(ch.text)) = 3
    /\ Len(splitAtSentences(ch.text, ch.maxLength)) = 2
    /\ splitAtSentences(ch.text, ch.maxLength)[1]
           = JoinWithSpace(PiecesOf(ch.text), 1, 2)
    /\ Len(splitAtSentences(ch.text, ch.maxLength)[1]) = ch.maxLength

(***************************************************************************)
(* The claim about termination, under SpecSplitFair.                       *)
(***************************************************************************)
\* An iteration of the force-split loop leaves a shorter remaining text.
ForceSplitShortens ==
    (ch.pc = "split" /\ ch'.pc = "split")
        => Len(ch'.remaining) < Len(ch.remaining)

\* C38: chunkMessage returns for every text and every maxLength >= 1, and
\* every iteration of the force-split loop removes at least one character
\* from the remaining text.
C38_Terminates ==
    /\ (ch.pc # "idle") ~> (ch.pc = "done")
    /\ [][ForceSplitShortens]_vars

\* A call has returned after the force-split loop cut a text without a
\* space into more than two chunks.
C38_Witness ==
    /\ ch.pc = "done"
    /\ \A k \in 1..Len(ch.text) : ch.text[k] = 97
    /\ ch.maxLength = 1
    /\ Len(ch.chunks) > 2
    /\ ch.chunks = chunkMessage(ch.text, ch.maxLength)

(***************************************************************************)
(* The claims about callbacks side by side, under SpecCallback.            *)
(***************************************************************************)
\* The sends made and the sends still to make, as (to, text) pairs.
SendsOf(i) ==
    [k \in 1..Len(cb[i].sent) |-> Send(cb[i].sent[k].to, cb[i].sent[k].text)]
        \o cb[i].todo

NoSendThrew(i) == \A k \in 1..Len(cb[i].sent) : cb[i].sent[k].result # "throw"

\* C39: of two accepted completion callbacks with different message ids,
\* neither is answered as a duplicate, no dedup state is written, and each
\* is delivered: its sends, made and still to make, are those of its own
\* body, and once its task has ended without a throwing send all of them
\* have been made.
C39_OtherIdsDoNotInterfere ==
    \A i, j \in CallbackSlots :
        (/\ i # j
         /\ AcceptedCompletion(i)
         /\ AcceptedCompletion(j)
         /\ cb[i].body.f.message_id # cb[j].body.f.message_id)
            => /\ cb[i].status = 200
               /\ ~cb[i].deduplicated
               /\ dedup = {}
               /\ NoSendThrew(i) =>
                      SendsOf(i) = handleCompletionCallback(cb[i].body).sends
               /\ (cb[i].pc = "done" /\ NoSendThrew(i)) => cb[i].todo = <<>>

\* Two completed callbacks with different message ids, the second arrived
\* while the first was being delivered, and both have been delivered.
C39_Witness ==
    /\ AcceptedCompleted(1)
    /\ AcceptedCompleted(2)
    /\ cb[1].body.f.message_id # cb[2].body.f.message_id
    /\ ~cb[2].quiet
    /\ \A i \in {1, 2} :
           /\ cb[i].pc = "done"
           /\ cb[i].sent # <<>>
           /\ NoSendThrew(i)

\* C40: in the delivery of an accepted completion callback, a send that
\* returns failure is followed by the sends after it in order, and the task
\* goes on until the last; a send that throws is the last send of the
\* delivery.
C40_FailureDoesNotStopDelivery ==
    \A i \in CallbackSlots :
        AcceptedCompletion(i) =>
            LET plan == handleCompletionCallback(cb[i].body).sends
                made == Len(cb[i].sent)
            IN  /\ made <= Len(plan)
                /\ \A k \in 1..made :
                       /\ Send(cb[i].sent[k].to, cb[i].sent[k].text) = plan[k]
                       /\ cb[i].sent[k].result = "throw" =>
                              /\ k = made
                              /\ cb[i].todo = <<>>
                              /\ cb[i].pc = "done"
                       /\ cb[i].sent[k].result = "failed" =>
                              /\ k = made =>
                                     /\ cb[i].todo = SubSeq(plan, k + 1, Len(plan))
                                     /\ cb[i].pc = "done" <=> k = Len(plan)
                              /\ (k < made \/ cb[i].pc = "done") =>
                                     k = Len(plan) \/ made > k

\* One delivery whose first send returned failure has made all its three
\* sends, and another whose first send threw has made no other send.
C40_Witness ==
    \E i, j \in CallbackSlots :
        /\ AcceptedCompleted(i)
        /\ cb[i].pc = "done"
        /\ Len(cb[i].sent) = 3
        /\ cb[i].sent[1].result = "failed"
        /\ cb[i].sent[3].result = "ok"
        /\ AcceptedCompleted(j)
        /\ cb[j].pc = "done"
        /\ Len(handleCompletionCallback(cb[j].body).sends) > 1
        /\ Len(cb[j].sent) = 1
        /\ cb[j].sent[1].result = "throw"

=============================================================================
